---- MODULE Spec2Model ----
(***************************************************************************)
(* Model of the import page of anime-file-manager                          *)
(* (src/src/pages/ImportPage.tsx): the working file set, the naming        *)
(* configuration, the metadata candidates, and the planner applyMetadata   *)
(* with the handlers that run it.                                          *)
(*                                                                         *)
(* Strings are sequences of symbols.  A symbol is one character ("A", ".", *)
(* " ", "0"), a word of letters kept as one symbol ("mkv", "chs"; Chars    *)
(* spells it out where single characters matter), or, in templates, one    *)
(* placeholder token ("{title}").  The empty sequence stands for both the  *)
(* empty string and an absent (undefined) string: the code only ever tests *)
(* these by truthiness.  An absent number is NoNumber.                     *)
(***************************************************************************)
EXTENDS Integers, Sequences, FiniteSets, TLC

\* ------------------------------------------------------------------ bounds

\* Largest working file set drawn in Init.
MaxFiles == 3

\* Most runs of processFiles awaiting a reply at once.
MaxRuns == 2

\* Longest subtitle suffix a reload of the config may set.
MaxSuffixLen == 4

\* undefined for an optional number (season, year, episode_number)
NoNumber == -1

\* ------------------------------------------------------- string primitives

\* s.startsWith(p) at offset i (1-based): the symbols of p occur at s[i..]
MatchAt(s, p, i) ==
    /\ i >= 1
    /\ i + Len(p) - 1 <= Len(s)
    /\ \A k \in 1..Len(p) : s[i + k - 1] = p[k]

\* the first offset >= i at which p occurs in s, 0 when there is none
RECURSIVE IndexFrom(_, _, _)
IndexFrom(s, p, i) ==
    IF i + Len(p) - 1 > Len(s) THEN 0
    ELSE IF MatchAt(s, p, i) THEN i
    ELSE IndexFrom(s, p, i + 1)

\* s.indexOf(p), 1-based, 0 when p does not occur
IndexOf(s, p) == IndexFrom(s, p, 1)

\* s.includes(p)
Includes(s, p) == IndexOf(s, p) # 0

\* String.prototype.replace(p, v) with a string pattern: the FIRST occurrence only
ReplaceFirst(s, p, v) ==
    LET i == IndexOf(s, p)
    IN  IF i = 0 THEN s
        ELSE SubSeq(s, 1, i - 1) \o v \o SubSeq(s, i + Len(p), Len(s))

\* s.endsWith(p)
EndsWith(s, p) == Len(p) <= Len(s) /\ SubSeq(s, Len(s) - Len(p) + 1, Len(s)) = p

IsSpace(c) == c = " "

\* s.replace(/\s+/g, ' '): every run of whitespace becomes one space
RECURSIVE CollapseWs(_)
CollapseWs(s) ==
    IF s = <<>> THEN <<>>
    ELSE IF IsSpace(Head(s))
         THEN IF Len(s) >= 2 /\ IsSpace(s[2])
              THEN CollapseWs(Tail(s))
              ELSE <<" ">> \o CollapseWs(Tail(s))
         ELSE <<Head(s)>> \o CollapseWs(Tail(s))

\* s.trim()
RECURSIVE TrimLeft(_)
TrimLeft(s) == IF s # <<>> /\ IsSpace(Head(s)) THEN TrimLeft(Tail(s)) ELSE s

RECURSIVE TrimRight(_)
TrimRight(s) ==
    IF s # <<>> /\ IsSpace(s[Len(s)]) THEN TrimRight(SubSeq(s, 1, Len(s) - 1)) ELSE s

Trim(s) == TrimRight(TrimLeft(s))

\* newName.replace(/\s+/g, ' ').trim()
CleanWs(s) == Trim(CollapseWs(s))

\* s.split('.'): the segments between the dots, empty ones included
RECURSIVE SplitDot(_)
SplitDot(s) ==
    LET i == IndexOf(s, <<".">>)
    IN  IF i = 0 THEN <<s>>
        ELSE <<SubSeq(s, 1, i - 1)>> \o SplitDot(SubSeq(s, i + 1, Len(s)))

\* ------------------------------------------------------------------ numbers

DigitSyms == <<"0", "1", "2", "3", "4", "5", "6", "7", "8", "9">>

IsDigit(c) == c \in {"0", "1", "2", "3", "4", "5", "6", "7", "8", "9"}

DigitVal(c) == (CHOOSE d \in 1..10 : DigitSyms[d] = c) - 1

\* Number.prototype.toString() of a natural number
RECURSIVE NumToString(_)
NumToString(n) ==
    IF n < 10 THEN <<DigitSyms[n + 1]>>
    ELSE NumToString(n \div 10) \o <<DigitSyms[(n % 10) + 1]>>

\* s.padStart(w, '0')
RECURSIVE PadStart(_, _)
PadStart(s, w) == IF Len(s) >= w THEN s ELSE PadStart(<<"0">> \o s, w)

\* parseInt of a run of decimal digits
RECURSIVE ParseInt(_)
ParseInt(ds) ==
    IF ds = <<>> THEN 0
    ELSE 10 * ParseInt(SubSeq(ds, 1, Len(ds) - 1)) + DigitVal(ds[Len(ds)])

\* --------------------------------------------------------------- characters

Lower == <<"a", "b", "c", "d", "e", "f", "g", "h", "i", "j", "k", "l", "m",
           "n", "o", "p", "q", "r", "s", "t", "u", "v", "w", "x", "y", "z">>

Upper == <<"A", "B", "C", "D", "E", "F", "G", "H", "I", "J", "K", "L", "M",
           "N", "O", "P", "Q", "R", "S", "T", "U", "V", "W", "X", "Y", "Z">>

\* punctuation in the order the collation puts it (all of it before the digits)
Punct == <<" ", "-", ".", "(", ")", "[", "]">>

Letters == {Lower[k] : k \in 1..26} \cup {Upper[k] : k \in 1..26}
Digits == {DigitSyms[k] : k \in 1..10}
Characters == Letters \cup Digits \cup {Punct[k] : k \in 1..Len(Punct)}

IsLower(c) == \E k \in 1..26 : Lower[k] = c
IsUpper(c) == \E k \in 1..26 : Upper[k] = c

\* the characters of a word that is written as one symbol
WordChars(w) ==
    CASE w = "mkv" -> <<"m", "k", "v">>
      [] w = "ass" -> <<"a", "s", "s">>
      [] w = "chs" -> <<"c", "h", "s">>
      [] w = "hi" -> <<"h", "i">>
      [] w = "default" -> <<"d", "e", "f", "a", "u", "l", "t">>
      [] w = "constructor" -> <<"c", "o", "n", "s", "t", "r", "u", "c", "t", "o", "r">>
      [] w = "Example" -> <<"E", "x", "a", "m", "p", "l", "e">>
      [] w = "Eng" -> <<"E", "n", "g">>
      [] w = "Nat" -> <<"N", "a", "t">>
      [] w = "Grp" -> <<"G", "r", "p">>
      [] OTHER -> <<w>>

\* a string spelled out character by character
RECURSIVE Chars(_)
Chars(s) == IF s = <<>> THEN <<>> ELSE WordChars(Head(s)) \o Chars(Tail(s))

\* three-way comparison of two sequences of integers, element by element,
\* a proper prefix first
RECURSIVE LexCmp(_, _)
LexCmp(x, y) ==
    IF x = <<>> /\ y = <<>> THEN 0
    ELSE IF x = <<>> THEN -1
    ELSE IF y = <<>> THEN 1
    ELSE IF Head(x) < Head(y) THEN -1
    ELSE IF Head(x) > Head(y) THEN 1
    ELSE LexCmp(Tail(x), Tail(y))

\* primary collation weight: punctuation < digits < letters, the two cases of
\* a letter alike
PrimaryWeight ==
    [c \in Characters |->
        IF IsLower(c) THEN 200 + (CHOOSE k \in 1..26 : Lower[k] = c)
        ELSE IF IsUpper(c) THEN 200 + (CHOOSE k \in 1..26 : Upper[k] = c)
        ELSE IF IsDigit(c) THEN 100 + DigitVal(c)
        ELSE CHOOSE k \in 1..Len(Punct) : Punct[k] = c]

\* tertiary collation weight: lower case before upper case
CaseWeight == [c \in Characters |-> IF IsUpper(c) THEN 1 ELSE 0]

\* UTF-16 code unit of a character
CodeUnit ==
    [c \in Characters |->
        IF IsLower(c) THEN 96 + (CHOOSE k \in 1..26 : Lower[k] = c)
        ELSE IF IsUpper(c) THEN 64 + (CHOOSE k \in 1..26 : Upper[k] = c)
        ELSE IF IsDigit(c) THEN 48 + DigitVal(c)
        ELSE CASE c = " " -> 32 [] c = "(" -> 40 [] c = ")" -> 41 [] c = "-" -> 45
               [] c = "." -> 46 [] c = "[" -> 91 [] c = "]" -> 93]

\* the comparison of the < operator on strings: code unit by code unit
CodeUnitCompare(a, b) ==
    LET ca == Chars(a)
        cb == Chars(b)
    IN  LexCmp([k \in 1..Len(ca) |-> CodeUnit[ca[k]]], [k \in 1..Len(cb) |-> CodeUnit[cb[k]]])

\* a.localeCompare(b): the whole strings are compared by primary weight first
\* and by case only when they are equal up to case
LocaleCompare(a, b) ==
    LET ca == Chars(a)
        cb == Chars(b)
        p == LexCmp([k \in 1..Len(ca) |-> PrimaryWeight[ca[k]]],
                    [k \in 1..Len(cb) |-> PrimaryWeight[cb[k]]])
    IN  IF p # 0 THEN p
        ELSE LexCmp([k \in 1..Len(ca) |-> CaseWeight[ca[k]]],
                    [k \in 1..Len(cb) |-> CaseWeight[cb[k]]])

\* ------------------------------------------------- scans of a file name

\* the length of the run of digits of c that starts at i
RECURSIVE DigitRun(_, _)
DigitRun(c, i) == IF i <= Len(c) /\ IsDigit(c[i]) THEN 1 + DigitRun(c, i + 1) ELSE 0

SeasonMatchAt(c, i) == c[i] \in {"S", "s"} /\ DigitRun(c, i + 1) >= 1

\* file.name.match(/[Ss](\d+)/) followed by parseInt(seasonMatch[1]);
\* NoNumber when there is no match
SeasonScan(name) ==
    LET c == Chars(name)
    IN  IF \E i \in 1..Len(c) : SeasonMatchAt(c, i)
        THEN LET i == CHOOSE i \in 1..Len(c) :
                          SeasonMatchAt(c, i) /\ \A j \in 1..(i - 1) : ~SeasonMatchAt(c, j)
             IN  ParseInt(SubSeq(c, i + 1, i + DigitRun(c, i + 1)))
        ELSE NoNumber

\* the length of the run of symbols other than "]" that starts at i
RECURSIVE NonCloseRun(_, _)
NonCloseRun(s, i) == IF i <= Len(s) /\ s[i] # "]" THEN 1 + NonCloseRun(s, i + 1) ELSE 0

GroupMatchAt(s, i) ==
    /\ s[i] = "["
    /\ NonCloseRun(s, i + 1) >= 1
    /\ i + 1 + NonCloseRun(s, i + 1) <= Len(s)

\* file.name.match(/\[([^\]]+)\]/) and groupMatch[1]; empty when there is no match
GroupScan(name) ==
    IF \E i \in 1..Len(name) : GroupMatchAt(name, i)
    THEN LET i == CHOOSE i \in 1..Len(name) :
                      GroupMatchAt(name, i) /\ \A j \in 1..(i - 1) : ~GroupMatchAt(name, j)
         IN  SubSeq(name, i + 1, i + NonCloseRun(name, i + 1))
    ELSE <<>>

\* ------------------------------------------------------ subtitle suffixes

\* the suffix as it would be if the segment after the base name were taken
extractSecondSegment(filename) ==
    LET parts == SplitDot(filename)
    IN  IF Len(parts) >= 3 THEN parts[2] ELSE <<>>

extractSubtitleSuffix(filename) ==
    LET parts == SplitDot(filename)
    IN  IF Len(parts) >= 3 THEN parts[Len(parts) - 1] ELSE <<>>

\* const suffix = item.suffix || 'default'
GroupKey(filename) ==
    LET suffix == extractSubtitleSuffix(filename)
    IN  IF suffix # <<>> THEN suffix ELSE <<"default">>

\* keys that the group table {} already answers with an inherited property of
\* Object.prototype, so that groups[suffix] is truthy before any file is added
InheritedKeys == {<<"constructor">>, <<"toString">>, <<"valueOf">>, <<"hasOwnProperty">>,
                  <<"isPrototypeOf">>, <<"propertyIsEnumerable">>, <<"toLocaleString">>,
                  <<"__proto__">>}

\* ------------------------------------------------------------- the planner

\* a file without a parse hint, and without planned metadata
NoParsed == [present |-> FALSE, anime_title |-> <<>>, episode_number |-> NoNumber,
             season |-> NoNumber, group |-> <<>>]

NoMetadata == [present |-> FALSE, title |-> <<>>, title_romaji |-> <<>>,
               title_english |-> <<>>, episode |-> NoNumber, season |-> NoNumber,
               year |-> NoNumber]

\* a number tested by truthiness: undefined and 0 are falsy
Truthy(n) == n # NoNumber /\ n # 0

\* animeData.title.romaji || animeData.title.english || animeData.title.native || "Unknown"
PrimaryTitle(animeData) ==
    IF animeData.romaji # <<>> THEN animeData.romaji
    ELSE IF animeData.english # <<>> THEN animeData.english
    ELSE IF animeData.native # <<>> THEN animeData.native
    ELSE <<"Unknown">>

\* seasonNumber: the hint's season when the file has a hint, else the S<digits> scan
SeasonNumber(file) ==
    IF file.parsed.present THEN file.parsed.season ELSE SeasonScan(file.name)

\* groupName: the hint's group when the file has a hint, else the [..] scan
GroupName(file) ==
    IF file.parsed.present THEN file.parsed.group ELSE GroupScan(file.name)

AnimeInfo(animeData, episodeNumber, seasonNumber) ==
    [present |-> TRUE,
     title |-> PrimaryTitle(animeData),
     title_romaji |-> animeData.romaji,
     title_english |-> animeData.english,
     episode |-> episodeNumber,
     season |-> IF Truthy(seasonNumber) THEN seasonNumber ELSE 1,
     year |-> animeData.season_year]

\* animeInfo.title_english || animeInfo.title
EnglishText(animeInfo) ==
    IF animeInfo.title_english # <<>> THEN animeInfo.title_english ELSE animeInfo.title

\* the romaji title as it would be without the fall-back to the primary title
RomajiTextOrEmpty(animeInfo) == animeInfo.title_romaji

\* animeInfo.title_romaji || animeInfo.title
RomajiText(animeInfo) ==
    IF animeInfo.title_romaji # <<>> THEN animeInfo.title_romaji ELSE animeInfo.title

\* the episode as it would be with episodeNumber.toString() alone
EpisodeTextUnpadded(episodeNumber, width) == NumToString(episodeNumber)

\* episodeNumber.toString().padStart(width, '0')
EpisodeText(episodeNumber, width) == PadStart(NumToString(episodeNumber), width)

\* seasonNumber.toString() if (seasonNumber), else "1"
SeasonText(seasonNumber) ==
    IF Truthy(seasonNumber) THEN NumToString(seasonNumber) ELSE <<"1">>

\* animeInfo.year.toString() if (animeInfo.year), else ""
YearText(animeInfo) ==
    IF Truthy(animeInfo.year) THEN NumToString(animeInfo.year) ELSE <<>>

\* groupName if (groupName), else ""
GroupText(groupName) == IF groupName # <<>> THEN groupName ELSE <<>>

\* the chain of replace calls on the template, then the whitespace clean-up
Substitute(template, animeInfo, episodeNumber, seasonNumber, groupName) ==
    LET n1 == ReplaceFirst(template, <<"{title}">>, animeInfo.title)
        n2 == ReplaceFirst(n1, <<"{title_romaji}">>, RomajiText(animeInfo))
        n3 == ReplaceFirst(n2, <<"{title_english}">>, EnglishText(animeInfo))
        n4 == ReplaceFirst(n3, <<"{episode}">>, EpisodeText(episodeNumber, 2))
        n5 == ReplaceFirst(n4, <<"{episode:02}">>, EpisodeText(episodeNumber, 2))
        n6 == ReplaceFirst(n5, <<"{episode:03}">>, EpisodeText(episodeNumber, 3))
        n7 == ReplaceFirst(n6, <<"{season}">>, SeasonText(seasonNumber))
        n8 == ReplaceFirst(n7, <<"{year}">>, YearText(animeInfo))
        n9 == ReplaceFirst(n8, <<"{group}">>, GroupText(groupName))
    IN  CleanWs(n9)

\* newName.replace("{ext}", file.file_type), then the extension is appended
\* unless the name already ends with it
ApplyExt(name, fileType) ==
    LET n == ReplaceFirst(name, <<"{ext}">>, <<fileType>>)
    IN  IF EndsWith(n, <<".", fileType>>) THEN n ELSE n \o <<".", fileType>>

\* the new name of a video file
VideoName(file, template, animeInfo, episodeNumber) ==
    ApplyExt(Substitute(template, animeInfo, episodeNumber, SeasonNumber(file), GroupName(file)),
             file.file_type)

\* if (suffix && suffix !== 'default') newName.replace("{ext}", `${suffix}.{ext}`)
InsertSuffix(name, suffix) ==
    IF suffix # <<>> /\ suffix # <<"default">>
    THEN ReplaceFirst(name, <<"{ext}">>, suffix \o <<".", "{ext}">>)
    ELSE name

\* the new name of a subtitle file of the group with key suffix
SubtitleName(file, suffix, template, subSuffix, animeInfo, episodeNumber) ==
    ApplyExt(InsertSuffix(Substitute(template \o subSuffix, animeInfo, episodeNumber,
                                     SeasonNumber(file), GroupName(file)),
                          suffix),
             file.file_type)

\* the comparator as it would be with (a, b) => a.name < b.name ? -1 : ...
CompareNamesByCodeUnit(a, b) == CodeUnitCompare(a.name, b.name)

\* the comparator as it would be if it compared the names shown in the list,
\* the preview name where a file has one
CompareNamesByPreview(a, b) ==
    LocaleCompare(IF a.new_name # <<>> THEN a.new_name ELSE a.name,
                  IF b.new_name # <<>> THEN b.new_name ELSE b.name)

\* the comparator of both sorts
CompareNames(a, b) == LocaleCompare(a.name, b.name)

\* the position as it would be if files that compare equal shared one
SortsBeforeStrictly(fs, j, i) == CompareNames(fs[j], fs[i]) < 0

\* Array.prototype.sort is stable: of two files that compare equal the one
\* earlier in the working set stays first
SortsBefore(fs, j, i) ==
    LET c == CompareNames(fs[j], fs[i])
    IN  c < 0 \/ (c = 0 /\ j < i)

\* the indices of the files that are sorted together with file i
VideoPeers(fs) == {j \in 1..Len(fs) : fs[j].is_video}
GroupPeers(fs, i) ==
    {j \in 1..Len(fs) : fs[j].is_subtitle /\ GroupKey(fs[j].name) = GroupKey(fs[i].name)}

\* sortedIndex + 1 / groupIndex + 1: the 1-based position of file i among its peers
Position(fs, peers, i) == 1 + Cardinality({j \in peers : j # i /\ SortsBefore(fs, j, i)})

VideoEpisode(fs, i) == Position(fs, VideoPeers(fs), i)
SubtitleEpisode(fs, i) == Position(fs, GroupPeers(fs, i), i)

\* groups[suffix].push(item) fails with a TypeError when groups[suffix] is an
\* inherited property instead of a list
GroupingThrows(fs) ==
    \E i \in 1..Len(fs) : fs[i].is_subtitle /\ GroupKey(fs[i].name) \in InheritedKeys

\* the video loop as it would be if a name already present were kept
PlanVideoKeepingName(fs, i, animeData, template) ==
    LET file == fs[i]
        episodeNumber == VideoEpisode(fs, i)
        animeInfo == AnimeInfo(animeData, episodeNumber, SeasonNumber(file))
    IN  [file EXCEPT !.metadata = animeInfo,
                     !.new_name = IF file.new_name # <<>> THEN file.new_name
                                  ELSE VideoName(file, template, animeInfo, episodeNumber)]

PlanVideo(fs, i, animeData, template) ==
    LET file == fs[i]
        episodeNumber == VideoEpisode(fs, i)
        animeInfo == AnimeInfo(animeData, episodeNumber, SeasonNumber(file))
    IN  [file EXCEPT !.metadata = animeInfo,
                     !.new_name = VideoName(file, template, animeInfo, episodeNumber)]

PlanSubtitle(fs, i, animeData, template, subSuffix) ==
    LET file == fs[i]
        episodeNumber == SubtitleEpisode(fs, i)
        animeInfo == AnimeInfo(animeData, episodeNumber, SeasonNumber(file))
    IN  [file EXCEPT !.metadata = animeInfo,
                     !.new_name = SubtitleName(file, GroupKey(file.name), template, subSuffix,
                                               animeInfo, episodeNumber)]

\* the array applyMetadata hands to setFiles: the video loop, then the
\* subtitle loop, over a copy of the working set
PlannedFiles(fs, animeData, template, subSuffix) ==
    [i \in 1..Len(fs) |->
        IF fs[i].is_subtitle THEN PlanSubtitle(fs, i, animeData, template, subSuffix)
        ELSE IF fs[i].is_video THEN PlanVideo(fs, i, animeData, template)
        ELSE fs[i]]

\* ------------------------------------------- the destination map (processFiles)

\* the anime folder of the destination paths
AnimeFolder(folderTpl, animeInfo) ==
    LET a1 == ReplaceFirst(folderTpl, <<"{title}">>, animeInfo.title)
        a2 == ReplaceFirst(a1, <<"{title_romaji}">>,
                           IF animeInfo.title_romaji # <<>> THEN animeInfo.title_romaji
                           ELSE animeInfo.title)
        a3 == ReplaceFirst(a2, <<"{title_english}">>,
                           IF animeInfo.title_english # <<>> THEN animeInfo.title_english
                           ELSE animeInfo.title)
    IN  IF Truthy(animeInfo.year)
        THEN ReplaceFirst(a3, <<"{year}">>, NumToString(animeInfo.year))
        ELSE ReplaceFirst(ReplaceFirst(a3, <<" ", "(", "{year}", ")">>, <<>>),
                          <<"(", "{year}", ")">>, <<>>)

\* the season folder of a file whose metadata carries a season
SeasonFolder(seasonTpl, season) ==
    LET s1 == ReplaceFirst(seasonTpl, <<"{season}">>, NumToString(season))
        s2 == ReplaceFirst(s1, <<"{season:02}">>, PadStart(NumToString(season), 2))
    IN  ReplaceFirst(s2, <<"{season:03}">>, PadStart(NumToString(season), 3))

\* organizeBySeasons && file.metadata?.season
HasSeasonFolder(file, bySeasons) ==
    bySeasons /\ file.metadata.present /\ Truthy(file.metadata.season)

\* targetPath of one file that has a new name, in the branch with metadata
TargetPath(file, animeInfo, folderTpl, seasonTpl, animeFolders, bySeasons) ==
    IF animeFolders
    THEN AnimeFolder(folderTpl, animeInfo)
         \o (IF HasSeasonFolder(file, bySeasons)
             THEN <<"/">> \o SeasonFolder(seasonTpl, file.metadata.season)
             ELSE <<>>)
         \o <<"/">> \o file.new_name
    ELSE IF HasSeasonFolder(file, bySeasons)
         THEN SeasonFolder(seasonTpl, file.metadata.season) \o <<"/">> \o file.new_name
         ELSE file.new_name

\* renameMap: one entry per path of a file with a new name; of two files with
\* the same path the later one overwrites the earlier
RenameMap(fs, folderTpl, seasonTpl, animeFolders, bySeasons) ==
    LET named == {i \in 1..Len(fs) : fs[i].new_name # <<>>}
        withMeta == {i \in 1..Len(fs) : fs[i].metadata.present}
        lastOf(p) == CHOOSE i \in named :
                        fs[i].path = p /\ \A j \in named : fs[j].path = p => j <= i
    IN  [p \in {fs[i].path : i \in named} |->
            IF withMeta # {}
            THEN TargetPath(fs[lastOf(p)],
                            fs[CHOOSE i \in withMeta : \A j \in withMeta : i <= j].metadata,
                            folderTpl, seasonTpl, animeFolders, bySeasons)
            ELSE fs[lastOf(p)].new_name]

\* ------------------------------------------------------------------ inputs

DefaultFileNameTemplate ==
    <<"{title_romaji}", " ", "-", " ", "S", "{season}", "E", "{episode:02}">>
DefaultSubtitleSuffix == <<".", "chs">>
DefaultFolderTemplate == <<"{title_romaji}", " ", "(", "{year}", ")">>
DefaultSeasonFolderTemplate == <<"S", "e", "a", "s", "o", "n", " ", "{season}">>

\* a file as handleFileSelect / handleFiles build it
NewFile(path, name, isVideo) ==
    [path |-> path, name |-> name, file_type |-> name[Len(name)],
     is_video |-> isVideo, is_subtitle |-> ~isVideo,
     parsed |-> NoParsed, metadata |-> NoMetadata, new_name |-> <<>>]

\* the reply of parse_anime_filename stored by parseFilenames
Hint(title, episode, season, group) ==
    [present |-> TRUE, anime_title |-> title, episode_number |-> episode,
     season |-> season, group |-> group]

WithHint(file, hint) == [file EXCEPT !.parsed = hint]

VideoB == WithHint(NewFile("d1/B.mkv", <<"B", ".", "mkv">>, TRUE),
                   Hint(<<"Example">>, 7, 2, <<"Grp">>))
VideoA == NewFile("d1/A.mkv", <<"A", ".", "mkv">>, TRUE)
VideoA2 == WithHint(NewFile("d2/A.mkv", <<"A", ".", "mkv">>, TRUE),
                    Hint(<<"Example">>, 7, 3, <<>>))
VideoLower == NewFile("d1/aS03.mkv", <<"a", "S", "0", "3", ".", "mkv">>, TRUE)
SubPlain == NewFile("d1/X.ass", <<"X", ".", "ass">>, FALSE)
SubChs == NewFile("d1/X.chs.ass", <<"X", ".", "chs", ".", "ass">>, FALSE)
SubChsW == NewFile("d1/[G]W.chs.ass", <<"[", "G", "]", "W", ".", "chs", ".", "ass">>, FALSE)
SubHi == NewFile("d1/X.chs.hi.ass", <<"X", ".", "chs", ".", "hi", ".", "ass">>, FALSE)
SubEmpty == NewFile("d1/X..ass", <<"X", ".", ".", "ass">>, FALSE)
SubCtor == NewFile("d1/X.constructor.ass", <<"X", ".", "constructor", ".", "ass">>, FALSE)

VideoTagged == NewFile("d1/[G]aS03.mkv", <<"[", "G", "]", "a", "S", "0", "3", ".", "mkv">>, TRUE)

\* the files the working sets are drawn from: of Spec, of SpecSubtitles and
\* of SpecNaming
FilePool == <<VideoB, VideoA, SubChs, VideoLower, VideoA2, SubCtor>>
SubtitlePool == <<SubChs, VideoA, SubPlain, SubChsW, SubHi, SubEmpty, SubCtor>>
NamingPool == <<SubChs, VideoB, SubPlain>>
AnalysisPool == <<VideoTagged, VideoA>>

\* the increasing sequences of k indices out of 1..n
RECURSIVE Increasing(_, _)
Increasing(k, n) ==
    IF k = 0 THEN {<<>>}
    ELSE {Append(q, m) : q \in Increasing(k - 1, n), m \in 1..n} \cap
         {q \in [1..k -> 1..n] : \A i \in 1..(k - 1) : q[i] < q[i + 1]}

Reverse(q) == [i \in 1..Len(q) |-> q[Len(q) + 1 - i]]

\* the working sets of at most n files of a pool, each in the order of the
\* pool and in the opposite order
WorkingSets(pool, n) ==
    LET picks == UNION {Increasing(k, Len(pool)) : k \in 0..n}
    IN  {[i \in 1..Len(q) |-> pool[q[i]]] : q \in picks \cup {Reverse(q) : q \in picks}}

\* the candidates search_anilist returned
Candidate(id, romaji, english, native, year, episodes) ==
    [id |-> id, romaji |-> romaji, english |-> english, native |-> native,
     season_year |-> year, episodes |-> episodes]

SearchResults ==
    << Candidate(1, <<"Example">>, <<"Eng">>, <<"Nat">>, 2020, 12),
       Candidate(2, <<>>, <<>>, <<"Nat">>, NoNumber, NoNumber) >>

\* the templates and suffixes typed into the settings panel
Templates == {DefaultFileNameTemplate, <<"{title}", " ", "{episode}">>}
Suffixes == {DefaultSubtitleSuffix, <<>>}

SettingsPageTemplate ==
    <<"{title_romaji}", " ", "-", " ", "{episode:02}", " ", "[", "{group}", "]", ".", "{ext}">>

NamingTemplates ==
    { DefaultFileNameTemplate,
      SettingsPageTemplate,
      <<"{title}", " ", "(", "{year}", ")">>,
      <<"{episode}", " ", "{episode}">>,
      <<"{title_english}", " ", "{season:02}", " ", "{season:03}", " ", "{episode:03}">>,
      <<"{ext}", " ", "{title}">> }

\* ------------------------------------------------------------------- state

VARIABLES
    files,                \* the working file set
    fileNameTemplate,
    subtitleSuffix,
    folderTemplate,
    seasonFolderTemplate,
    organizeBySeasons,
    createAnimeFolders,
    animeSearchResults,
    selectedAnimeId,      \* 0 for null
    config,               \* the AppConfig loaded by loadConfig, absent when it failed
    lastPlan,             \* history: what the last handler did with the planner, and the
                          \* destination map processFiles would build from its result
    outputDir,            \* the chosen output directory, <<>> for null
    lastProcess,          \* history: what the last handler did as a run of processFiles
    lastParse,            \* history: the replies the last handler got as parseFilenames
    lastEdit,             \* history: the latest editFileName call
    lastSearch,           \* history: what the last handler did as a metadata search
    analysis,             \* the run of parseFilenames that awaits a reply, if any
    inFlightUpdates,      \* history: the paths added and removed during that run
    isProcessing,
    processingProgress,
    pending,              \* the replies and timers the runs of processFiles wait for
    lastResult,           \* history: what the last handler did with a materializer reply
    lastSave              \* history: the settings the last handler saved, and their reload

vars == <<files, fileNameTemplate, subtitleSuffix, folderTemplate, seasonFolderTemplate,
          organizeBySeasons, createAnimeFolders, animeSearchResults, selectedAnimeId,
          config, lastPlan, outputDir, lastProcess, lastParse, lastEdit, lastSearch,
          analysis, inFlightUpdates, isProcessing, processingProgress, pending, lastResult,
          lastSave>>

NoConfig == [present |-> FALSE, output_directory |-> <<>>,
             naming_template |-> <<>>, subtitle_template |-> <<>>,
             folder_template |-> <<>>, season_folder_template |-> <<>>,
             organize_by_season |-> FALSE, create_anime_folders |-> FALSE]

NoPlan == [ran |-> FALSE, threw |-> FALSE, animeId |-> 0, template |-> <<>>,
           subSuffix |-> <<>>, repeated |-> FALSE, destinations |-> [p \in {} |-> <<>>]]

\* no run of processFiles yet
NoProcess == [ran |-> FALSE, probed |-> FALSE, canHardlink |-> "none", invoked |-> FALSE,
              paths |-> <<>>, renameMap |-> [p \in {} |-> <<>>]]

\* no run of parseFilenames yet
NoParse == [ran |-> FALSE, before |-> <<>>, replies |-> <<>>]

\* no manual edit yet
NoEdit == [made |-> FALSE, index |-> 0, name |-> <<>>, replanned |-> FALSE]

\* no metadata search in the last handler
NoSearch == [ran |-> FALSE, threw |-> FALSE, found |-> 0]

\* no run of parseFilenames awaits a reply
NoAnalysis == [phase |-> "idle", files |-> <<>>, title |-> <<>>]

\* completed: the run has ended since the last of them
NoUpdates == [added |-> {}, removed |-> {}, completed |-> FALSE]

\* no probe and no materializer reply awaited, no progress interval and no
\* reset timeout live
NoPending == [probes |-> 0, calls |-> 0, intervals |-> 0, resets |-> 0]

\* no materializer reply handled in the last handler
NoResult == [answered |-> FALSE, threw |-> FALSE, success |-> FALSE, failed |-> 0,
             toast |-> "none"]

\* no save of the settings in the last handler
NoSave == [made |-> FALSE, loaded |-> FALSE, template |-> <<>>, suffix |-> <<>>]

\* the page after its construction, a failed load_config, a search and the
\* selection of the working set
InitPage(workingSets, results, selected) ==
    /\ files \in workingSets
    /\ fileNameTemplate = DefaultFileNameTemplate
    /\ subtitleSuffix = DefaultSubtitleSuffix
    /\ folderTemplate = DefaultFolderTemplate
    /\ seasonFolderTemplate = DefaultSeasonFolderTemplate
    /\ organizeBySeasons = TRUE
    /\ createAnimeFolders = TRUE
    /\ animeSearchResults = results
    /\ selectedAnimeId = selected
    /\ config = NoConfig
    /\ lastPlan = NoPlan
    /\ outputDir = <<>>
    /\ lastProcess = NoProcess
    /\ lastParse = NoParse
    /\ lastEdit = NoEdit
    /\ lastSearch = NoSearch
    /\ analysis = NoAnalysis
    /\ inFlightUpdates = NoUpdates
    /\ isProcessing = FALSE
    /\ processingProgress = 0
    /\ pending = NoPending
    /\ lastResult = NoResult
    /\ lastSave = NoSave

\* the page with the candidates of a search and the first of them selected
InitWith(workingSets) == InitPage(workingSets, SearchResults, SearchResults[1].id)

Init == InitWith(WorkingSets(FilePool, MaxFiles))

\* ---------------------------------------------------------------- handlers

\* what a handler that saves the config leaves as history: the file-name
\* template and the subtitle suffix the page shows after it
Saved(template, suffix) ==
    IF config.present
    THEN [made |-> TRUE, loaded |-> FALSE, template |-> template, suffix |-> suffix]
    ELSE NoSave

\* autoSaveConfig(updates): nothing without a loaded config; else the current
\* settings of this render overlaid with the update are saved and kept
AutoSaveConfig(field, value) ==
    IF ~config.present THEN config
    ELSE [[config EXCEPT !.output_directory = IF outputDir # <<>> THEN outputDir ELSE @,
                         !.naming_template = fileNameTemplate,
                         !.subtitle_template = fileNameTemplate \o subtitleSuffix,
                         !.folder_template = folderTemplate,
                         !.season_folder_template = seasonFolderTemplate,
                         !.organize_by_season = organizeBySeasons]
            EXCEPT ![field] = value]

\* saveCurrentSettings: nothing without a loaded config; else the settings of
\* this render are handed to save_config and kept when it answers true
saveCurrentSettings(saved) ==
    /\ config' = IF config.present /\ saved
                 THEN [config EXCEPT !.output_directory = IF outputDir # <<>> THEN outputDir ELSE @,
                                     !.naming_template = fileNameTemplate,
                                     !.subtitle_template = fileNameTemplate \o subtitleSuffix,
                                     !.folder_template = folderTemplate,
                                     !.season_folder_template = seasonFolderTemplate,
                                     !.organize_by_season = organizeBySeasons]
                 ELSE config
    /\ lastSave' = IF config.present /\ saved
                   THEN [made |-> TRUE, loaded |-> FALSE, template |-> fileNameTemplate,
                         suffix |-> subtitleSuffix]
                   ELSE NoSave
    /\ lastPlan' = NoPlan
    /\ lastProcess' = NoProcess
    /\ lastParse' = NoParse
    /\ lastSearch' = NoSearch
    /\ lastResult' = NoResult
    /\ UNCHANGED <<files, fileNameTemplate, subtitleSuffix, folderTemplate, seasonFolderTemplate,
                   organizeBySeasons, createAnimeFolders, animeSearchResults, selectedAnimeId,
                   outputDir, lastEdit, analysis, inFlightUpdates, isProcessing,
                   processingProgress, pending>>

\* the subtitle suffix loadConfig extracts: the subtitle template without the
\* first occurrence of the naming template (less a trailing {ext}); ".chs"
\* when the naming template does not occur or nothing is left
LoadedSuffix(appConfig) ==
    LET subtitleTemplate == IF appConfig.subtitle_template # <<>>
                            THEN appConfig.subtitle_template
                            ELSE DefaultFileNameTemplate \o DefaultSubtitleSuffix
        baseTemplate == appConfig.naming_template
        stripped == IF EndsWith(baseTemplate, <<"{ext}">>)
                    THEN SubSeq(baseTemplate, 1, Len(baseTemplate) - 1)
                    ELSE baseTemplate
        suffix == ReplaceFirst(subtitleTemplate, stripped, <<>>)
    IN  IF Includes(subtitleTemplate, stripped) /\ suffix # <<>> THEN suffix
        ELSE DefaultSubtitleSuffix

\* the page is mounted anew and its effect runs loadConfig: load_config
\* answers with the config last saved, or is rejected and the defaults are set
loadConfig(rejected) ==
    /\ config.present
    /\ Len(LoadedSuffix(config)) <= MaxSuffixLen
    /\ IF rejected
       THEN /\ fileNameTemplate' = DefaultFileNameTemplate
            /\ subtitleSuffix' = DefaultSubtitleSuffix
            /\ folderTemplate' = DefaultFolderTemplate
            /\ seasonFolderTemplate' = DefaultSeasonFolderTemplate
            /\ organizeBySeasons' = TRUE
            /\ createAnimeFolders' = TRUE
            /\ outputDir' = <<>>
            /\ lastSave' = NoSave
       ELSE /\ fileNameTemplate' = config.naming_template
            /\ subtitleSuffix' = LoadedSuffix(config)
            /\ folderTemplate' = config.folder_template
            /\ seasonFolderTemplate' = IF config.season_folder_template # <<>>
                                       THEN config.season_folder_template
                                       ELSE DefaultSeasonFolderTemplate
            /\ organizeBySeasons' = config.organize_by_season
            /\ createAnimeFolders' = config.create_anime_folders
            /\ outputDir' = config.output_directory
            /\ lastSave' = IF lastSave.made THEN [lastSave EXCEPT !.loaded = TRUE] ELSE NoSave
    /\ files' = <<>>
    /\ animeSearchResults' = <<>>
    /\ selectedAnimeId' = 0
    /\ isProcessing' = FALSE
    /\ processingProgress' = 0
    /\ analysis' = NoAnalysis
    /\ inFlightUpdates' = NoUpdates
    /\ lastEdit' = NoEdit
    /\ lastPlan' = NoPlan
    /\ lastProcess' = NoProcess
    /\ lastParse' = NoParse
    /\ lastSearch' = NoSearch
    /\ lastResult' = NoResult
    /\ UNCHANGED <<config, pending>>

\* applyMetadata(animeData) as run by a handler of the current render: it reads
\* files, fileNameTemplate and subtitleSuffix of that render, and either throws
\* while grouping the subtitles, before anything is assigned, or hands the
\* planned files to setFiles
ApplyMetadataTo(fs, animeData) ==
    LET updatedFiles == IF GroupingThrows(fs) THEN fs
                        ELSE PlannedFiles(fs, animeData, fileNameTemplate, subtitleSuffix)
    IN  /\ files' = updatedFiles
        /\ lastPlan' = [ran |-> TRUE, threw |-> GroupingThrows(fs),
                        animeId |-> animeData.id,
                        template |-> fileNameTemplate, subSuffix |-> subtitleSuffix,
                        repeated |-> /\ lastPlan.ran
                                     /\ lastPlan.animeId = animeData.id
                                     /\ lastPlan.template = fileNameTemplate
                                     /\ lastPlan.subSuffix = subtitleSuffix,
                        destinations |-> RenameMap(updatedFiles, folderTemplate,
                                                   seasonFolderTemplate, createAnimeFolders,
                                                   organizeBySeasons)]
        /\ lastEdit' = IF lastEdit.made /\ ~GroupingThrows(fs)
                       THEN [lastEdit EXCEPT !.replanned = TRUE]
                       ELSE lastEdit

\* applyMetadata(animeData) over the working set of the current render
ApplyMetadata(animeData) == ApplyMetadataTo(files, animeData)

Found(animeId) == {k \in 1..Len(animeSearchResults) : animeSearchResults[k].id = animeId}

\* animeSearchResults.find(anime => anime.id === animeId)
FindAnime(animeId) == animeSearchResults[CHOOSE k \in Found(animeId) : \A j \in Found(animeId) : k <= j]

selectAnimeMetadata(animeId) ==
    /\ Found(animeId) # {}
    /\ selectedAnimeId' = animeId
    /\ ApplyMetadata(FindAnime(animeId))
    /\ lastProcess' = NoProcess
    /\ lastParse' = NoParse
    /\ lastSearch' = NoSearch
    /\ lastResult' = NoResult
    /\ lastSave' = NoSave
    /\ UNCHANGED <<analysis, inFlightUpdates, isProcessing, processingProgress, pending,
                   fileNameTemplate, subtitleSuffix, folderTemplate, seasonFolderTemplate,
                   organizeBySeasons, createAnimeFolders, animeSearchResults, config,
                   outputDir>>

\* the planner runs inside the handler's render, so it still reads the
\* template of before the edit
updateFileNameTemplate(template) ==
    /\ fileNameTemplate' = template
    /\ config' = AutoSaveConfig("naming_template", template)
    /\ IF selectedAnimeId # 0 /\ Found(selectedAnimeId) # {}
       THEN ApplyMetadata(FindAnime(selectedAnimeId))
       ELSE /\ files' = files
            /\ lastPlan' = NoPlan
            /\ lastEdit' = lastEdit
    /\ lastProcess' = NoProcess
    /\ lastParse' = NoParse
    /\ lastSearch' = NoSearch
    /\ lastResult' = NoResult
    /\ lastSave' = Saved(template, subtitleSuffix)
    /\ UNCHANGED <<analysis, inFlightUpdates, isProcessing, processingProgress, pending,
                   subtitleSuffix, folderTemplate, seasonFolderTemplate, organizeBySeasons,
                   createAnimeFolders, animeSearchResults, selectedAnimeId,
                   outputDir>>

updateSubtitleSuffix(suffix) ==
    /\ subtitleSuffix' = suffix
    /\ config' = AutoSaveConfig("subtitle_template", fileNameTemplate \o suffix)
    /\ lastPlan' = NoPlan
    /\ lastProcess' = NoProcess
    /\ lastParse' = NoParse
    /\ lastSearch' = NoSearch
    /\ lastResult' = NoResult
    /\ lastSave' = Saved(fileNameTemplate, suffix)
    /\ UNCHANGED <<analysis, inFlightUpdates, isProcessing, processingProgress, pending,
                   files, fileNameTemplate, folderTemplate, seasonFolderTemplate,
                   organizeBySeasons, createAnimeFolders, animeSearchResults, selectedAnimeId,
                   outputDir, lastEdit>>

\* the edit as it would be if it wrote the name into every entry
editFileNameOfAll(index, newName) ==
    /\ index \in 1..Len(files)
    /\ files' = [i \in 1..Len(files) |-> [files[i] EXCEPT !.new_name = newName]]
    /\ lastEdit' = [made |-> TRUE, index |-> index, name |-> newName, replanned |-> FALSE]
    /\ lastPlan' = NoPlan
    /\ lastProcess' = NoProcess
    /\ lastParse' = NoParse
    /\ lastSearch' = NoSearch
    /\ lastResult' = NoResult
    /\ lastSave' = NoSave
    /\ UNCHANGED <<analysis, inFlightUpdates, isProcessing, processingProgress, pending,
                   fileNameTemplate, subtitleSuffix, folderTemplate, seasonFolderTemplate,
                   organizeBySeasons, createAnimeFolders, animeSearchResults, selectedAnimeId,
                   config, outputDir>>

\* editFileName(index, newName): the name is written into the entry
editFileName(index, newName) ==
    /\ index \in 1..Len(files)
    /\ files' = [files EXCEPT ![index].new_name = newName]
    /\ lastEdit' = [made |-> TRUE, index |-> index, name |-> newName, replanned |-> FALSE]
    /\ lastPlan' = NoPlan
    /\ lastProcess' = NoProcess
    /\ lastParse' = NoParse
    /\ lastSearch' = NoSearch
    /\ lastResult' = NoResult
    /\ lastSave' = NoSave
    /\ UNCHANGED <<analysis, inFlightUpdates, isProcessing, processingProgress, pending,
                   fileNameTemplate, subtitleSuffix, folderTemplate, seasonFolderTemplate,
                   organizeBySeasons, createAnimeFolders, animeSearchResults, selectedAnimeId,
                   config, outputDir>>

\* setFiles(prev => [...prev, ...fileObjects]) of handleFileSelect, handleFiles
\* and scanDirectory: the new entries are appended, whatever the set holds
AddFiles(newFiles) ==
    /\ Len(files) + Len(newFiles) <= MaxFiles
    /\ files' = files \o newFiles
    /\ inFlightUpdates' =
          IF analysis.phase \in {"parsing", "searching"}
          THEN [added |-> inFlightUpdates.added \cup {newFiles[k].path : k \in 1..Len(newFiles)},
                removed |-> inFlightUpdates.removed \ {newFiles[k].path : k \in 1..Len(newFiles)},
                completed |-> FALSE]
          ELSE NoUpdates
    /\ lastPlan' = NoPlan
    /\ lastProcess' = NoProcess
    /\ lastParse' = NoParse
    /\ lastSearch' = NoSearch
    /\ lastResult' = NoResult
    /\ lastSave' = NoSave
    /\ UNCHANGED <<analysis, isProcessing, processingProgress, pending,
                   fileNameTemplate, subtitleSuffix, folderTemplate, seasonFolderTemplate,
                   organizeBySeasons, createAnimeFolders, animeSearchResults, selectedAnimeId,
                   config, outputDir, lastEdit>>

\* the file dialog returned the paths of selected
handleFileSelect(selected) == selected # <<>> /\ AddFiles(selected)

\* the dropped files that are videos or subtitles and carry a path
handleFiles(fileList) ==
    LET supported(f) == (f.is_video \/ f.is_subtitle) /\ f.path # ""
        newFiles == SelectSeq(fileList, supported)
    IN  IF newFiles # <<>> THEN AddFiles(newFiles) ELSE UNCHANGED vars

\* scan_directory replied with scannedFiles
scanDirectory(scannedFiles) == AddFiles(scannedFiles)

\* setFiles(prev => prev.filter((_, i) => i !== index)), index counted from 1
removeFile(index) ==
    /\ index \in 1..Len(files)
    /\ files' = [i \in 1..(Len(files) - 1) |-> IF i < index THEN files[i] ELSE files[i + 1]]
    /\ inFlightUpdates' =
          IF analysis.phase \in {"parsing", "searching"}
          THEN IF \E j \in 1..Len(files) : j # index /\ files[j].path = files[index].path
               THEN inFlightUpdates
               ELSE [added |-> inFlightUpdates.added \ {files[index].path},
                     removed |-> inFlightUpdates.removed \cup {files[index].path},
                     completed |-> FALSE]
          ELSE NoUpdates
    /\ lastPlan' = NoPlan
    /\ lastEdit' = NoEdit
    /\ lastProcess' = NoProcess
    /\ lastParse' = NoParse
    /\ lastSearch' = NoSearch
    /\ lastResult' = NoResult
    /\ lastSave' = NoSave
    /\ UNCHANGED <<analysis, isProcessing, processingProgress, pending,
                   fileNameTemplate, subtitleSuffix, folderTemplate, seasonFolderTemplate,
                   organizeBySeasons, createAnimeFolders, animeSearchResults, selectedAnimeId,
                   config, outputDir>>

clearFiles ==
    /\ files' = <<>>
    /\ lastPlan' = NoPlan
    /\ lastEdit' = NoEdit
    /\ lastProcess' = NoProcess
    /\ lastParse' = NoParse
    /\ lastSearch' = NoSearch
    /\ lastResult' = NoResult
    /\ lastSave' = NoSave
    /\ UNCHANGED <<analysis, inFlightUpdates, isProcessing, processingProgress, pending,
                   fileNameTemplate, subtitleSuffix, folderTemplate, seasonFolderTemplate,
                   organizeBySeasons, createAnimeFolders, animeSearchResults, selectedAnimeId,
                   config, outputDir>>

\* the directory dialog returned selected
selectOutputDirectory(selected) ==
    /\ selected # <<>>
    /\ outputDir' = selected
    /\ config' = AutoSaveConfig("output_directory", selected)
    /\ lastPlan' = NoPlan
    /\ lastProcess' = NoProcess
    /\ lastParse' = NoParse
    /\ lastSearch' = NoSearch
    /\ lastResult' = NoResult
    /\ lastSave' = Saved(fileNameTemplate, subtitleSuffix)
    /\ UNCHANGED <<analysis, inFlightUpdates, isProcessing, processingProgress, pending,
                   files, fileNameTemplate, subtitleSuffix, folderTemplate, seasonFolderTemplate,
                   organizeBySeasons, createAnimeFolders, animeSearchResults, selectedAnimeId, lastEdit>>

updateFolderTemplate(template) ==
    /\ folderTemplate' = template
    /\ config' = AutoSaveConfig("folder_template", template)
    /\ lastPlan' = NoPlan
    /\ lastProcess' = NoProcess
    /\ lastParse' = NoParse
    /\ lastSearch' = NoSearch
    /\ lastResult' = NoResult
    /\ lastSave' = Saved(fileNameTemplate, subtitleSuffix)
    /\ UNCHANGED <<analysis, inFlightUpdates, isProcessing, processingProgress, pending,
                   files, fileNameTemplate, subtitleSuffix, seasonFolderTemplate,
                   organizeBySeasons, createAnimeFolders, animeSearchResults, selectedAnimeId,
                   outputDir, lastEdit>>

updateSeasonFolderTemplate(template) ==
    /\ seasonFolderTemplate' = template
    /\ config' = AutoSaveConfig("season_folder_template", template)
    /\ lastPlan' = NoPlan
    /\ lastProcess' = NoProcess
    /\ lastParse' = NoParse
    /\ lastSearch' = NoSearch
    /\ lastResult' = NoResult
    /\ lastSave' = Saved(fileNameTemplate, subtitleSuffix)
    /\ UNCHANGED <<analysis, inFlightUpdates, isProcessing, processingProgress, pending,
                   files, fileNameTemplate, subtitleSuffix, folderTemplate,
                   organizeBySeasons, createAnimeFolders, animeSearchResults, selectedAnimeId,
                   outputDir, lastEdit>>

updateOrganizeBySeasons(organize) ==
    /\ organizeBySeasons' = organize
    /\ config' = AutoSaveConfig("organize_by_season", organize)
    /\ lastPlan' = NoPlan
    /\ lastProcess' = NoProcess
    /\ lastParse' = NoParse
    /\ lastSearch' = NoSearch
    /\ lastResult' = NoResult
    /\ lastSave' = Saved(fileNameTemplate, subtitleSuffix)
    /\ UNCHANGED <<analysis, inFlightUpdates, isProcessing, processingProgress, pending,
                   files, fileNameTemplate, subtitleSuffix, folderTemplate, seasonFolderTemplate,
                   createAnimeFolders, animeSearchResults, selectedAnimeId,
                   outputDir, lastEdit>>

updateCreateAnimeFolders(create) ==
    /\ createAnimeFolders' = create
    /\ config' = AutoSaveConfig("create_anime_folders", create)
    /\ lastPlan' = NoPlan
    /\ lastProcess' = NoProcess
    /\ lastParse' = NoParse
    /\ lastSearch' = NoSearch
    /\ lastResult' = NoResult
    /\ lastSave' = Saved(fileNameTemplate, subtitleSuffix)
    /\ UNCHANGED <<analysis, inFlightUpdates, isProcessing, processingProgress, pending,
                   files, fileNameTemplate, subtitleSuffix, folderTemplate, seasonFolderTemplate,
                   organizeBySeasons, animeSearchResults, selectedAnimeId,
                   outputDir, lastEdit>>

\* the outcome of search_anilist: a list of candidates, or a failure
SearchReply(results) == [threw |-> FALSE, results |-> results]
SearchFailure == [threw |-> TRUE, results |-> <<>>]

\* the search as it would be if an empty result cleared the annotations
SearchRepliedClearing(fs, reply) ==
    /\ animeSearchResults' = reply.results
    /\ files' = [i \in 1..Len(fs) |-> [fs[i] EXCEPT !.metadata = NoMetadata, !.new_name = <<>>]]
    /\ lastPlan' = NoPlan
    /\ lastSearch' = [ran |-> TRUE, threw |-> reply.threw, found |-> Len(reply.results)]
    /\ UNCHANGED <<selectedAnimeId, lastEdit>>

\* searchAnimeMetadata once search_anilist has answered with reply; fs is the
\* working set the handler reads
SearchReplied(fs, reply) ==
    LET results == reply.results IN
    /\ lastSearch' = [ran |-> TRUE, threw |-> reply.threw, found |-> Len(results)]
    /\ IF reply.threw
       THEN /\ files' = fs
            /\ lastPlan' = NoPlan
            /\ UNCHANGED <<animeSearchResults, selectedAnimeId, lastEdit>>
       ELSE /\ animeSearchResults' = results
            /\ IF Len(results) > 0
               THEN /\ selectedAnimeId' = results[1].id
                    /\ ApplyMetadataTo(fs, results[1])
               ELSE /\ files' = fs
                    /\ lastPlan' = NoPlan
                    /\ UNCHANGED <<selectedAnimeId, lastEdit>>

\* handleManualSearch with manualSearchQuery = query
handleManualSearch(query, reply) ==
    /\ IF Trim(query) = <<>>
       THEN /\ lastSearch' = NoSearch
            /\ UNCHANGED <<files, lastPlan, animeSearchResults, selectedAnimeId, lastEdit>>
       ELSE SearchReplied(files, reply)
    /\ lastProcess' = NoProcess
    /\ lastParse' = NoParse
    /\ lastResult' = NoResult
    /\ lastSave' = NoSave
    /\ UNCHANGED <<analysis, inFlightUpdates, isProcessing, processingProgress, pending,
                   fileNameTemplate, subtitleSuffix, folderTemplate, seasonFolderTemplate,
                   organizeBySeasons, createAnimeFolders, config, outputDir>>

\* the reply of parse_anime_filename for a file whose parse failed
ParseFailure == NoParsed

\* the loop as it would be if the first failed parse ended it
ParsedFilesUntilFailure(fs, replies) ==
    [i \in 1..Len(fs) |->
        IF /\ fs[i].is_video
           /\ \A k \in VideoPeers(fs) : k <= i => replies[k].present
        THEN [fs[i] EXCEPT !.parsed = replies[i]] ELSE fs[i]]

\* updatedFiles after the loop of parseFilenames: the reply for video k is
\* stored in the first entry that has the path of k, a later reply over an
\* earlier one; a failed parse stores nothing
ParsedFiles(fs, replies) ==
    LET first(p) == CHOOSE i \in 1..Len(fs) : fs[i].path = p /\ \A j \in 1..(i - 1) : fs[j].path # p
        stored(i) == {k \in VideoPeers(fs) : first(fs[k].path) = i /\ replies[k].present}
        last(i) == CHOOSE k \in stored(i) : \A j \in stored(i) : j <= k
    IN  [i \in 1..Len(fs) |->
            IF stored(i) # {} THEN [fs[i] EXCEPT !.parsed = replies[last(i)]] ELSE fs[i]]

\* parsedCount and firstAnimeTitle at the end of the loop
ParsedCount(fs, replies) == Cardinality({k \in VideoPeers(fs) : replies[k].present})

FirstAnimeTitle(fs, replies) ==
    LET titled == {k \in VideoPeers(fs) : replies[k].present /\ replies[k].anime_title # <<>>}
    IN  IF titled = {} THEN <<>>
        ELSE replies[CHOOSE k \in titled : \A j \in titled : k <= j].anime_title

\* parseFilenames: every video is parsed, each reply or failure on its own,
\* and the first title found is searched for
parseFilenames(replies, reply) ==
    /\ IF files = <<>>
       THEN /\ lastSearch' = NoSearch
            /\ UNCHANGED <<files, lastPlan, animeSearchResults, selectedAnimeId, lastEdit>>
       ELSE IF ParsedCount(files, replies) > 0 /\ FirstAnimeTitle(files, replies) # <<>>
            THEN SearchReplied(ParsedFiles(files, replies), reply)
            ELSE /\ files' = ParsedFiles(files, replies)
                 /\ lastPlan' = NoPlan
                 /\ lastSearch' = NoSearch
                 /\ UNCHANGED <<animeSearchResults, selectedAnimeId, lastEdit>>
    /\ lastParse' = IF files = <<>> THEN NoParse
                    ELSE [ran |-> TRUE,
                          before |-> [i \in 1..Len(files) |-> files[i].parsed],
                          replies |-> [i \in 1..Len(files) |->
                                          IF files[i].is_video THEN replies[i] ELSE ParseFailure]]
    /\ lastProcess' = NoProcess
    /\ lastResult' = NoResult
    /\ lastSave' = NoSave
    /\ UNCHANGED <<analysis, inFlightUpdates, isProcessing, processingProgress, pending,
                   fileNameTemplate, subtitleSuffix, folderTemplate, seasonFolderTemplate,
                   organizeBySeasons, createAnimeFolders, config, outputDir>>

\* a click on the analyse button, which is disabled while isAnalyzing or
\* isProcessing: parseFilenames up to its first await, with the array of
\* this render copied into updatedFiles
parseFilenamesCalled ==
    /\ analysis.phase = "idle"
    /\ ~isProcessing
    /\ files # <<>>
    /\ analysis' = [phase |-> "parsing", files |-> files, title |-> <<>>]
    /\ inFlightUpdates' = NoUpdates
    /\ lastPlan' = NoPlan
    /\ lastProcess' = NoProcess
    /\ lastParse' = NoParse
    /\ lastSearch' = NoSearch
    /\ lastResult' = NoResult
    /\ lastSave' = NoSave
    /\ UNCHANGED <<files, fileNameTemplate, subtitleSuffix, folderTemplate, seasonFolderTemplate,
                   organizeBySeasons, createAnimeFolders, animeSearchResults, selectedAnimeId,
                   config, outputDir, lastEdit, isProcessing, processingProgress, pending>>

\* parse_anime_filename has answered for the last video of the run: the
\* copy made at the click, with the replies written into it, is handed to
\* setFiles, and the search for the first title is started or the run ends
parseAnswered(replies) ==
    LET updatedFiles == ParsedFiles(analysis.files, replies)
        searches == /\ ParsedCount(analysis.files, replies) > 0
                    /\ FirstAnimeTitle(analysis.files, replies) # <<>>
    IN  /\ analysis.phase = "parsing"
        /\ files' = updatedFiles
        /\ analysis' = IF searches
                       THEN [phase |-> "searching", files |-> updatedFiles,
                             title |-> FirstAnimeTitle(analysis.files, replies)]
                       ELSE NoAnalysis
        /\ inFlightUpdates' = [inFlightUpdates EXCEPT !.completed = ~searches]
        /\ lastParse' = [ran |-> TRUE,
                         before |-> [i \in 1..Len(analysis.files) |-> analysis.files[i].parsed],
                         replies |-> [i \in 1..Len(analysis.files) |->
                                         IF analysis.files[i].is_video THEN replies[i]
                                         ELSE ParseFailure]]
        /\ lastPlan' = NoPlan
        /\ lastProcess' = NoProcess
        /\ lastSearch' = NoSearch
        /\ lastResult' = NoResult
        /\ lastSave' = NoSave
        /\ UNCHANGED <<fileNameTemplate, subtitleSuffix, folderTemplate, seasonFolderTemplate,
                       organizeBySeasons, createAnimeFolders, animeSearchResults,
                       selectedAnimeId, config, outputDir, lastEdit, isProcessing,
                       processingProgress, pending>>

\* search_anilist has answered the search of the run: applyMetadata plans the
\* array the run holds and hands the result to setFiles; then the run ends
searchAnswered(reply) ==
    /\ analysis.phase = "searching"
    /\ lastSearch' = [ran |-> TRUE, threw |-> reply.threw, found |-> Len(reply.results)]
    /\ IF reply.threw
       THEN UNCHANGED <<files, lastPlan, animeSearchResults, selectedAnimeId, lastEdit>>
       ELSE /\ animeSearchResults' = reply.results
            /\ IF Len(reply.results) > 0
               THEN /\ selectedAnimeId' = reply.results[1].id
                    /\ ApplyMetadataTo(analysis.files, reply.results[1])
               ELSE UNCHANGED <<files, lastPlan, selectedAnimeId, lastEdit>>
    /\ analysis' = NoAnalysis
    /\ inFlightUpdates' = [inFlightUpdates EXCEPT !.completed = TRUE]
    /\ lastProcess' = NoProcess
    /\ lastParse' = NoParse
    /\ lastResult' = NoResult
    /\ lastSave' = NoSave
    /\ UNCHANGED <<fileNameTemplate, subtitleSuffix, folderTemplate, seasonFolderTemplate,
                   organizeBySeasons, createAnimeFolders, config, outputDir, isProcessing,
                   processingProgress, pending>>

\* the run as it would be if only an answer false stopped it
ProbeNotFalse(canHardlink) == canHardlink # "false"

\* the probe check_hardlink_capability answered canHardlink ("true", "false")
\* or failed ("throws"): only an answer true lets the run go on
ProbePassed(canHardlink) == canHardlink = "true"

\* the early returns of processFiles before the probe
ProcessRefused(available) == files = <<>> \/ outputDir = <<>> \/ ~available

\* processFiles: the guards, the probe, the destination map and the call of
\* batch_process_with_season_folders with the paths of all files and the map
processFiles(available, canHardlink) ==
    /\ lastProcess' =
          IF ProcessRefused(available) THEN [NoProcess EXCEPT !.ran = TRUE]
          ELSE IF ~ProbePassed(canHardlink)
               THEN [NoProcess EXCEPT !.ran = TRUE, !.probed = TRUE, !.canHardlink = canHardlink]
               ELSE [ran |-> TRUE, probed |-> TRUE, canHardlink |-> canHardlink,
                     invoked |-> TRUE,
                     paths |-> [i \in 1..Len(files) |-> files[i].path],
                     renameMap |-> RenameMap(files, folderTemplate, seasonFolderTemplate,
                                             createAnimeFolders, organizeBySeasons)]
    /\ lastPlan' = NoPlan
    /\ lastParse' = NoParse
    /\ lastSearch' = NoSearch
    /\ lastResult' = NoResult
    /\ lastSave' = NoSave
    /\ UNCHANGED <<analysis, inFlightUpdates, isProcessing, processingProgress, pending,
                   files, fileNameTemplate, subtitleSuffix, folderTemplate, seasonFolderTemplate,
                   organizeBySeasons, createAnimeFolders, animeSearchResults, selectedAnimeId,
                   config, outputDir, lastEdit>>

\* the callback of the progress interval, prev + (100 - prev) * 0.1 and at
\* most 95, in whole percents rounded up
ProgressStep(prev) ==
    LET newProgress == prev + ((100 - prev) + 9) \div 10
    IN  IF newProgress > 95 THEN 95 ELSE newProgress

\* the reply of batch_process_with_season_folders for a batch of which
\* processed files were materialized and failed files were not: a success if
\* at least one file was materialized
MaterializerResult(processed, failed) ==
    [threw |-> FALSE, success |-> processed > 0, failed |-> failed]

\* the invoke of batch_process_with_season_folders was rejected
MaterializerFailure == [threw |-> TRUE, success |-> FALSE, failed |-> 0]

\* a click on the process button, which is disabled while isProcessing or
\* without an output directory: processFiles up to its await of the probe
processFilesCalled ==
    /\ ~isProcessing
    /\ outputDir # <<>>
    /\ pending.probes + pending.calls < MaxRuns
    /\ pending.intervals < MaxRuns
    /\ pending.resets < MaxRuns
    /\ IF ProcessRefused(TRUE)
       THEN /\ pending' = pending
            /\ lastResult' = [NoResult EXCEPT !.toast = "error"]
            /\ lastProcess' = [NoProcess EXCEPT !.ran = TRUE]
       ELSE /\ pending' = [pending EXCEPT !.probes = @ + 1]
            /\ lastResult' = NoResult
            /\ lastProcess' = NoProcess
    /\ lastPlan' = NoPlan
    /\ lastParse' = NoParse
    /\ lastSearch' = NoSearch
    /\ lastSave' = NoSave
    /\ UNCHANGED <<files, fileNameTemplate, subtitleSuffix, folderTemplate, seasonFolderTemplate,
                   organizeBySeasons, createAnimeFolders, animeSearchResults, selectedAnimeId,
                   config, outputDir, lastEdit, analysis, inFlightUpdates, isProcessing,
                   processingProgress>>

\* check_hardlink_capability answered a run of processFiles: on true the run
\* sets isProcessing, starts its progress interval and invokes the
\* materializer; else it returns, or lands in catch, and runs finally
probeAnswered(canHardlink) ==
    /\ pending.probes > 0
    /\ IF ProbePassed(canHardlink)
       THEN /\ isProcessing' = TRUE
            /\ processingProgress' = 0
            /\ pending' = [pending EXCEPT !.probes = @ - 1, !.intervals = @ + 1,
                                          !.calls = @ + 1]
            /\ lastResult' = NoResult
            /\ lastProcess' = [ran |-> TRUE, probed |-> TRUE, canHardlink |-> canHardlink,
                               invoked |-> TRUE,
                               paths |-> [i \in 1..Len(files) |-> files[i].path],
                               renameMap |-> RenameMap(files, folderTemplate,
                                                       seasonFolderTemplate, createAnimeFolders,
                                                       organizeBySeasons)]
       ELSE /\ isProcessing' = FALSE
            /\ processingProgress' = processingProgress
            /\ pending' = [pending EXCEPT !.probes = @ - 1, !.resets = @ + 1]
            /\ lastResult' = [NoResult EXCEPT !.toast = "error"]
            /\ lastProcess' = [NoProcess EXCEPT !.ran = TRUE, !.probed = TRUE,
                                                !.canHardlink = canHardlink]
    /\ lastPlan' = NoPlan
    /\ lastParse' = NoParse
    /\ lastSearch' = NoSearch
    /\ lastSave' = NoSave
    /\ UNCHANGED <<files, fileNameTemplate, subtitleSuffix, folderTemplate, seasonFolderTemplate,
                   organizeBySeasons, createAnimeFolders, animeSearchResults, selectedAnimeId,
                   config, outputDir, lastEdit, analysis, inFlightUpdates>>

\* the toast shown for the outcome of the materializer
ResultToast(result) ==
    IF result.threw THEN "error"
    ELSE IF result.success THEN "success" ELSE "warning"

\* batch_process_with_season_folders answered a run of processFiles: with a
\* result the run clears its interval, sets the progress to 100 and shows the
\* toast; a rejected invoke goes to catch; finally ends the run either way
\* and schedules the reset of the progress
materializerAnswered(result) ==
    /\ pending.calls > 0
    /\ IF result.threw
       THEN /\ pending' = [pending EXCEPT !.calls = @ - 1, !.resets = @ + 1]
            /\ processingProgress' = processingProgress
       ELSE /\ pending' = [pending EXCEPT !.calls = @ - 1, !.intervals = @ - 1,
                                          !.resets = @ + 1]
            /\ processingProgress' = 100
    /\ isProcessing' = FALSE
    /\ lastResult' = [answered |-> TRUE, threw |-> result.threw, success |-> result.success,
                      failed |-> result.failed, toast |-> ResultToast(result)]
    /\ lastPlan' = NoPlan
    /\ lastProcess' = NoProcess
    /\ lastParse' = NoParse
    /\ lastSearch' = NoSearch
    /\ lastSave' = NoSave
    /\ UNCHANGED <<files, fileNameTemplate, subtitleSuffix, folderTemplate, seasonFolderTemplate,
                   organizeBySeasons, createAnimeFolders, animeSearchResults, selectedAnimeId,
                   config, outputDir, lastEdit, analysis, inFlightUpdates>>

\* a live progress interval fired
progressTick ==
    /\ pending.intervals > 0
    /\ processingProgress' = ProgressStep(processingProgress)
    /\ lastPlan' = NoPlan
    /\ lastProcess' = NoProcess
    /\ lastParse' = NoParse
    /\ lastSearch' = NoSearch
    /\ lastResult' = NoResult
    /\ lastSave' = NoSave
    /\ UNCHANGED <<files, fileNameTemplate, subtitleSuffix, folderTemplate, seasonFolderTemplate,
                   organizeBySeasons, createAnimeFolders, animeSearchResults, selectedAnimeId,
                   config, outputDir, lastEdit, analysis, inFlightUpdates, isProcessing,
                   pending>>

\* the timeout set in finally fired, 2 s after the end of a run
progressReset ==
    /\ pending.resets > 0
    /\ pending' = [pending EXCEPT !.resets = @ - 1]
    /\ processingProgress' = 0
    /\ lastPlan' = NoPlan
    /\ lastProcess' = NoProcess
    /\ lastParse' = NoParse
    /\ lastSearch' = NoSearch
    /\ lastResult' = NoResult
    /\ lastSave' = NoSave
    /\ UNCHANGED <<files, fileNameTemplate, subtitleSuffix, folderTemplate, seasonFolderTemplate,
                   organizeBySeasons, createAnimeFolders, animeSearchResults, selectedAnimeId,
                   config, outputDir, lastEdit, analysis, inFlightUpdates, isProcessing>>

Next ==
    \/ \E k \in 1..Len(animeSearchResults) : selectAnimeMetadata(animeSearchResults[k].id)
    \/ \E t \in Templates : updateFileNameTemplate(t)
    \/ \E s \in Suffixes : updateSubtitleSuffix(s)

Spec == Init /\ [][Next]_vars

\* the same handlers over working sets of subtitles of several suffix groups
InitSubtitles == InitWith(WorkingSets(SubtitlePool, MaxFiles))

SpecSubtitles == InitSubtitles /\ [][Next]_vars

\* the same handlers with the templates that exercise every placeholder
InitNaming == InitWith(WorkingSets(NamingPool, MaxFiles))

NextNaming ==
    \/ \E k \in 1..Len(animeSearchResults) : selectAnimeMetadata(animeSearchResults[k].id)
    \/ \E t \in NamingTemplates : updateFileNameTemplate(t)
    \/ \E s \in Suffixes : updateSubtitleSuffix(s)

SpecNaming == InitNaming /\ [][NextNaming]_vars

\* the replies of parse_anime_filename and of search_anilist, and the queries
\* typed into the search box
ParseReplies == {ParseFailure, Hint(<<"Example">>, 7, 2, <<"Grp">>),
                 Hint(<<"Example">>, 7, NoNumber, <<>>)}
SearchReplies == {SearchFailure, SearchReply(<<>>), SearchReply(SearchResults)}
Queries == {<<"Example">>, <<" ">>}

\* the page after a file selection, before any analysis
InitAnalysis == InitPage(WorkingSets(AnalysisPool, MaxFiles), <<>>, 0)

NextAnalysis ==
    \/ \E replies \in [VideoPeers(files) -> ParseReplies], reply \in SearchReplies :
          parseFilenames(replies, reply)
    \/ \E query \in Queries, reply \in SearchReplies : handleManualSearch(query, reply)
    \/ \E k \in 1..Len(animeSearchResults) : selectAnimeMetadata(animeSearchResults[k].id)

SpecAnalysis == InitAnalysis /\ [][NextAnalysis]_vars

\* the folder templates typed into the settings panel, the chosen output
\* directory and the answers of the probe
FolderTemplates == {DefaultFolderTemplate, <<"{title}", " ", "{year}">>}
SeasonFolderTemplates == {DefaultSeasonFolderTemplate, <<"S", "{season:02}">>}
OutputDirs == {<<"out">>}
ProbeReplies == {"true", "false", "throws"}

\* a working set in which the same file was selected twice
PathPool == <<VideoB, VideoA, VideoA, SubChs>>

InitPaths == InitWith(WorkingSets(PathPool, MaxFiles))

\* the settings of the destination layout, the choice of the output
\* directory and the processing of the planned files
NextPaths ==
    \/ \E k \in 1..Len(animeSearchResults) : selectAnimeMetadata(animeSearchResults[k].id)
    \/ \E t \in FolderTemplates : updateFolderTemplate(t)
    \/ \E t \in SeasonFolderTemplates : updateSeasonFolderTemplate(t)
    \/ \E b \in BOOLEAN : updateOrganizeBySeasons(b)
    \/ \E b \in BOOLEAN : updateCreateAnimeFolders(b)
    \/ \E d \in OutputDirs : selectOutputDirectory(d)
    \/ \E available \in BOOLEAN, canHardlink \in ProbeReplies :
          processFiles(available, canHardlink)

SpecPaths == InitPaths /\ [][NextPaths]_vars

\* the names typed into the name field of a file
EditedNames == {<<"My", ".", "mkv">>}

EditPool == <<VideoB, VideoA, SubChs, SubCtor>>

InitEdits == InitWith(WorkingSets(EditPool, MaxFiles))

\* manual edits of preview names between replans: a candidate selection, a
\* template edit and a new search
NextEdits ==
    \/ \E i \in 1..Len(files), n \in EditedNames : editFileName(i, n)
    \/ \E k \in 1..Len(animeSearchResults) : selectAnimeMetadata(animeSearchResults[k].id)
    \/ \E t \in Templates : updateFileNameTemplate(t)
    \/ \E reply \in {SearchReply(SearchResults), SearchReply(<<>>)} :
          handleManualSearch(<<"Example">>, reply)

SpecEdits == InitEdits /\ [][NextEdits]_vars

\* a text file, neither video nor subtitle, and a dropped video that carries
\* no path
NoteFile == [NewFile("d1/note.txt", <<"note", ".", "txt">>, FALSE) EXCEPT !.is_subtitle = FALSE]
PathlessVideo == [VideoA EXCEPT !.path = ""]

\* what the file dialog, a drop and scan_directory deliver
FileSelections == {<<VideoA>>, <<VideoA, SubChs>>}
Drops == {<<SubChs, NoteFile, PathlessVideo>>, <<NoteFile>>}
Scans == {<<VideoA, NoteFile>>}

\* the page after its construction and a failed load_config
InitFiles == InitPage({<<>>}, <<>>, 0)

\* additions, removals and clears of the working set, between searches,
\* selections and runs of processFiles
NextFiles ==
    \/ \E selected \in FileSelections : handleFileSelect(selected)
    \/ \E fileList \in Drops : handleFiles(fileList)
    \/ \E scannedFiles \in Scans : scanDirectory(scannedFiles)
    \/ \E i \in 1..Len(files) : removeFile(i)
    \/ clearFiles
    \/ \E reply \in {SearchReply(SearchResults)} : handleManualSearch(<<"Example">>, reply)
    \/ \E k \in 1..Len(animeSearchResults) : selectAnimeMetadata(animeSearchResults[k].id)
    \/ \E d \in OutputDirs : selectOutputDirectory(d)
    \/ \E canHardlink \in ProbeReplies : processFiles(TRUE, canHardlink)

SpecFiles == InitFiles /\ [][NextFiles]_vars

\* the page with a chosen output directory, over an empty or a selected
\* working set
InitProcessing == InitPage({<<>>, <<VideoA, SubChs>>}, <<>>, 0)

\* runs of processFiles with their awaited replies and timers
NextProcessing ==
    \/ \E d \in OutputDirs : selectOutputDirectory(d)
    \/ processFilesCalled
    \/ \E canHardlink \in ProbeReplies : probeAnswered(canHardlink)
    \/ \E processed \in 0..Len(files) :
          materializerAnswered(MaterializerResult(processed, Len(files) - processed))
    \/ materializerAnswered(MaterializerFailure)
    \/ progressTick
    \/ progressReset

SpecProcessing == InitProcessing /\ [][NextProcessing]_vars

\* additions to and removals from the working set while a run of
\* parseFilenames awaits its replies
NextInFlight ==
    \/ parseFilenamesCalled
    \/ \E replies \in [VideoPeers(analysis.files) -> {Hint(<<"Example">>, 7, 2, <<"Grp">>)}] :
          parseAnswered(replies)
    \/ \E reply \in {SearchReply(SearchResults), SearchReply(<<>>)} : searchAnswered(reply)
    \/ handleFileSelect(<<SubChs>>)
    \/ handleFiles(<<SubChs, NoteFile>>)
    \/ scanDirectory(<<SubChs>>)
    \/ \E i \in 1..Len(files) : removeFile(i)

\* the page after the selection of one video
InitInFlight == InitPage({<<VideoA>>}, <<>>, 0)

SpecInFlight == InitInFlight /\ [][NextInFlight]_vars

\* the config that holds the settings the page is constructed with
DefaultConfig ==
    [present |-> TRUE, output_directory |-> <<>>,
     naming_template |-> DefaultFileNameTemplate,
     subtitle_template |-> DefaultFileNameTemplate \o DefaultSubtitleSuffix,
     folder_template |-> DefaultFolderTemplate,
     season_folder_template |-> DefaultSeasonFolderTemplate,
     organize_by_season |-> TRUE, create_anime_folders |-> TRUE]

\* the page after its construction and the load of that config
InitConfig ==
    /\ files = <<>>
    /\ fileNameTemplate = DefaultFileNameTemplate
    /\ subtitleSuffix = DefaultSubtitleSuffix
    /\ folderTemplate = DefaultFolderTemplate
    /\ seasonFolderTemplate = DefaultSeasonFolderTemplate
    /\ organizeBySeasons = TRUE
    /\ createAnimeFolders = TRUE
    /\ animeSearchResults = <<>>
    /\ selectedAnimeId = 0
    /\ config = DefaultConfig
    /\ lastPlan = NoPlan
    /\ outputDir = <<>>
    /\ lastProcess = NoProcess
    /\ lastParse = NoParse
    /\ lastEdit = NoEdit
    /\ lastSearch = NoSearch
    /\ analysis = NoAnalysis
    /\ inFlightUpdates = NoUpdates
    /\ isProcessing = FALSE
    /\ processingProgress = 0
    /\ pending = NoPending
    /\ lastResult = NoResult
    /\ lastSave = NoSave

\* the file-name templates typed into the settings panel, one of them ending
\* in {ext}
ConfigTemplates == {DefaultFileNameTemplate, SettingsPageTemplate, <<"{title}", " ", "{episode}">>}

\* edits and saves of the settings, and reloads of the page
NextConfig ==
    \/ \E t \in ConfigTemplates : updateFileNameTemplate(t)
    \/ \E x \in Suffixes \cup {<<".", "cht">>} : updateSubtitleSuffix(x)
    \/ \E t \in FolderTemplates : updateFolderTemplate(t)
    \/ \E d \in OutputDirs : selectOutputDirectory(d)
    \/ \E saved \in BOOLEAN : saveCurrentSettings(saved)
    \/ \E rejected \in BOOLEAN : loadConfig(rejected)

SpecConfig == InitConfig /\ [][NextConfig]_vars

\* a video of the specials, season 0 in its name, and one whose parse hint
\* gives season 0
VideoSpecial == NewFile("d1/aS00.mkv", <<"a", "S", "0", "0", ".", "mkv">>, TRUE)
VideoHintZero == WithHint(NewFile("d1/C.mkv", <<"C", ".", "mkv">>, TRUE),
                          Hint(<<"Example">>, 7, 0, <<>>))

SeasonPool == <<VideoB, VideoSpecial, VideoHintZero, SubChs>>

InitSeasons == InitWith(WorkingSets(SeasonPool, MaxFiles))

\* the planning and processing of files of several seasons
SpecSeasons == InitSeasons /\ [][NextPaths]_vars

\* ------------------------------------------------------- what the claims use

\* the last handler ran the planner and the planner returned
Planned == lastPlan.ran /\ ~lastPlan.threw

Videos == {i \in 1..Len(files) : files[i].is_video}
Subtitles == {i \in 1..Len(files) : files[i].is_subtitle}

Episode(i) == files[i].metadata.episode

\* the map processFiles would hand to the materializer now
DestinationMap ==
    RenameMap(files, folderTemplate, seasonFolderTemplate, createAnimeFolders, organizeBySeasons)

\* ------------------------------------------------------------------ claims

\* C1: a planner run that repeats the previous run (same candidate, same
\* file-name template, same subtitle suffix, nothing in between) leaves every
\* file's episode, season and preview name, and the destination map built from
\* them, as the previous run left them.
C1_PlanningIsIdempotent ==
    [][(lastPlan'.ran /\ lastPlan'.repeated)
          => (files' = files /\ lastPlan'.destinations = lastPlan.destinations)]_vars

\* a repeated, completed run over a set with a video and a subtitle
C1_Witness ==
    /\ Planned
    /\ lastPlan.repeated
    /\ \E i \in Videos : files[i].new_name # <<>>
    /\ \E i \in Subtitles : files[i].new_name # <<>>
    /\ lastPlan.destinations = DestinationMap
    /\ DOMAIN DestinationMap = {files[i].path : i \in 1..Len(files)}

RankInGroup(i) ==
    1 + Cardinality({j \in Subtitles :
            /\ j # i
            /\ GroupKey(files[j].name) = GroupKey(files[i].name)
            /\ \/ LocaleCompare(files[j].name, files[i].name) < 0
               \/ LocaleCompare(files[j].name, files[i].name) = 0 /\ j < i})

\* C4 as stated: once the planner has run, every subtitle carries the number
\* of its position among the subtitles of its own suffix key.
C4_GroupsNumbered ==
    lastPlan.ran =>
        \A i \in Subtitles : files[i].metadata.present /\ Episode(i) = RankInGroup(i)

\* the segments of a file name
Segments(name) == SplitDot(name)

\* C5 as stated: the key is the second-to-last segment of every name of at
\* least 3 segments, and "default" otherwise.
C5_KeyIsSecondToLast ==
    \A i \in Subtitles :
        GroupKey(files[i].name) =
            IF Len(Segments(files[i].name)) >= 3
            THEN Segments(files[i].name)[Len(Segments(files[i].name)) - 1]
            ELSE <<"default">>

\* C5 amended: the key is the second-to-last segment when the name has at
\* least 3 segments and that segment is not empty, and "default" otherwise.
C5_KeyIsNonEmptySecondToLast ==
    \A i \in Subtitles :
        GroupKey(files[i].name) =
            IF /\ Len(Segments(files[i].name)) >= 3
               /\ Segments(files[i].name)[Len(Segments(files[i].name)) - 1] # <<>>
            THEN Segments(files[i].name)[Len(Segments(files[i].name)) - 1]
            ELSE <<"default">>

\* a planned working set with a name of four segments and a name whose
\* second-to-last segment is empty
C5_Witness ==
    /\ Planned
    /\ \E i \in Subtitles : Len(Segments(files[i].name)) = 4 /\ files[i].new_name # <<>>
    /\ \E i \in Subtitles :
          /\ Len(Segments(files[i].name)) = 3
          /\ Segments(files[i].name)[2] = <<>>

\* --------------------------------------------- preview names, as the claims read them

\* the candidate the last planner run was given
PlanCandidate == FindAnime(lastPlan.animeId)

\* the files the planner names
Named == Videos \cup Subtitles

\* the template the last run resolved for file i
TemplateOf(i) ==
    IF files[i].is_subtitle THEN lastPlan.template \o lastPlan.subSuffix ELSE lastPlan.template

\* one pass over a template that replaces the first occurrence of every token
\* of the table by its value
RECURSIVE RenderFrom(_, _, _)
RenderFrom(t, table, done) ==
    IF t = <<>> THEN <<>>
    ELSE IF Head(t) \in DOMAIN table /\ Head(t) \notin done
         THEN table[Head(t)] \o RenderFrom(Tail(t), table, done \cup {Head(t)})
         ELSE <<Head(t)>> \o RenderFrom(Tail(t), table, done)

RenderFirst(t, table) == RenderFrom(t, table, {})

\* one pass that replaces every occurrence of every token of the table
RECURSIVE RenderAll(_, _)
RenderAll(t, table) ==
    IF t = <<>> THEN <<>>
    ELSE (IF Head(t) \in DOMAIN table THEN table[Head(t)] ELSE <<Head(t)>>)
         \o RenderAll(Tail(t), table)

\* a number in decimal, zero-padded to width w
Padded(n, w) == PadStart(NumToString(n), w)

\* what follows the substitution: the whitespace clean-up, for a subtitle the
\* suffix key in front of {ext}, and the extension
Finish(i, rendered) ==
    LET cleaned == CleanWs(rendered)
    IN  ApplyExt(IF files[i].is_subtitle THEN InsertSuffix(cleaned, GroupKey(files[i].name))
                 ELSE cleaned,
                 files[i].file_type)

\* the twelve placeholders
Placeholders ==
    {"{title}", "{title_romaji}", "{title_english}", "{episode}", "{episode:02}",
     "{episode:03}", "{season}", "{season:02}", "{season:03}", "{year}", "{group}", "{ext}"}

\* the non-numeric values of file i, read off its planned metadata
TextValues(i) ==
    LET m == files[i].metadata
    IN  "{title}" :> m.title
        @@ "{title_romaji}" :> (IF m.title_romaji # <<>> THEN m.title_romaji ELSE m.title)
        @@ "{title_english}" :> (IF m.title_english # <<>> THEN m.title_english ELSE m.title)
        @@ "{year}" :> (IF Truthy(m.year) THEN NumToString(m.year) ELSE <<>>)
        @@ "{group}" :> GroupName(files[i])

\* the numeric values as C6 states them: bare forms at width 2, suffixed forms
\* at their width, for the episode and for the season
NumericValuesAsStated(i) ==
    LET e == Episode(i)
        s == files[i].metadata.season
    IN  "{episode}" :> Padded(e, 2) @@ "{episode:02}" :> Padded(e, 2)
        @@ "{episode:03}" :> Padded(e, 3)
        @@ "{season}" :> Padded(s, 2) @@ "{season:02}" :> Padded(s, 2)
        @@ "{season:03}" :> Padded(s, 3)

\* the numeric values of the amended C6: the episode forms padded, {season} in
\* plain decimal, no value for {season:02} and {season:03}
NumericValues(i) ==
    LET e == Episode(i)
        s == files[i].metadata.season
    IN  "{episode}" :> Padded(e, 2) @@ "{episode:02}" :> Padded(e, 2)
        @@ "{episode:03}" :> Padded(e, 3)
        @@ "{season}" :> NumToString(s)

\* C6 as stated: every numeric placeholder of a preview name is zero-padded,
\* the bare forms {episode} and {season} to width 2 and the suffixed forms to
\* their width.
C6_AllNumericsPadded ==
    Planned =>
        \A i \in Named :
            files[i].new_name =
                Finish(i, RenderFirst(RenderAll(TemplateOf(i), NumericValuesAsStated(i)),
                                      TextValues(i)))

\* C6 amended: in a preview name the first {episode} and the first
\* {episode:02} are the episode padded to width 2, the first {episode:03} is
\* the episode padded to width 3, the first {season} is the assigned season
\* in plain decimal without padding, and {season:02}, {season:03} and later
\* occurrences stay as written.
C6_EpisodePaddedSeasonPlain ==
    Planned =>
        \A i \in Named :
            files[i].new_name =
                Finish(i, RenderFirst(TemplateOf(i), NumericValues(i) @@ TextValues(i)))

\* a video of season 2 named by a template with {season} and {episode:02}
C6_Witness ==
    /\ Planned
    /\ Includes(lastPlan.template, <<"{season}">>)
    /\ Includes(lastPlan.template, <<"{episode:02}">>)
    /\ \E i \in Videos :
          /\ files[i].metadata.season = 2
          /\ Includes(files[i].new_name, <<"S", "2", "E", "0", "1">>)

\* C7 as stated: no preview name of a video or subtitle contains a
\* placeholder token.
C7_NoPlaceholderLeft ==
    Planned =>
        \A i \in Named :
            \A k \in 1..Len(files[i].new_name) : files[i].new_name[k] \notin Placeholders

\* the optional values as C8 states them: empty when the candidate or the
\* file lacks them
OptionalValuesAsStated(i) ==
    "{title}" :> PrimaryTitle(PlanCandidate)
    @@ "{title_romaji}" :> PlanCandidate.romaji
    @@ "{title_english}" :> PlanCandidate.english
    @@ "{year}" :> (IF PlanCandidate.season_year = NoNumber THEN <<>>
                    ELSE NumToString(PlanCandidate.season_year))
    @@ "{group}" :> GroupName(files[i])

\* the optional values of the amended C8: a missing title variant falls back
\* to the primary title
OptionalValues(i) ==
    "{title}" :> PrimaryTitle(PlanCandidate)
    @@ "{title_romaji}" :> (IF PlanCandidate.romaji = <<>> THEN PrimaryTitle(PlanCandidate)
                            ELSE PlanCandidate.romaji)
    @@ "{title_english}" :> (IF PlanCandidate.english = <<>> THEN PrimaryTitle(PlanCandidate)
                             ELSE PlanCandidate.english)
    @@ "{year}" :> (IF PlanCandidate.season_year = NoNumber THEN <<>>
                    ELSE NumToString(PlanCandidate.season_year))
    @@ "{group}" :> (IF GroupName(files[i]) = <<>> THEN <<>> ELSE GroupName(files[i]))

C9_YearlessIsTitleOnly ==
    (/\ Planned
     /\ lastPlan.template = <<"{title}", " ", "(", "{year}", ")">>
     /\ PlanCandidate.season_year = NoNumber)
    => \A i \in Videos :
          files[i].new_name = PrimaryTitle(PlanCandidate) \o <<".", files[i].file_type>>

\* the number of times symbol x occurs in s
Occurrences(s, x) == Cardinality({k \in 1..Len(s) : s[k] = x})

\* C10 as stated: every preview name ends with "." and the file's extension,
\* and holds the extension exactly once.
C10_ExtensionOnce ==
    Planned =>
        \A i \in Named :
            /\ EndsWith(files[i].new_name, <<".", files[i].file_type>>)
            /\ Occurrences(files[i].new_name, files[i].file_type) = 1

\* the season and the release group of file i by the two-tier policy: the
\* hint's value when the hint supplies it, else the scan of the name, else 1
\* (no group)
TwoTierSeason(i) ==
    LET f == files[i]
    IN  IF f.parsed.present /\ f.parsed.season # NoNumber THEN f.parsed.season
        ELSE IF SeasonScan(f.name) # NoNumber THEN SeasonScan(f.name)
        ELSE 1

TwoTierGroup(i) ==
    LET f == files[i]
    IN  IF f.parsed.present /\ f.parsed.group # <<>> THEN f.parsed.group
        ELSE GroupScan(f.name)

\* C11 as stated: after planning, every file's season is the hint's season,
\* else the season scanned from the name (also when the file has a hint that
\* lacks the season), else 1, and the group in its name is the hint's group,
\* else the first [..] token of the name, else nothing.
C11_TwoTierPerField ==
    Planned =>
        \A i \in Named :
            /\ files[i].metadata.season = TwoTierSeason(i)
            /\ files[i].new_name =
                  Finish(i, RenderFirst(TemplateOf(i),
                                        ("{group}" :> TwoTierGroup(i))
                                        @@ NumericValues(i) @@ TextValues(i)))

\* C20: a failed parse of one video leaves that file as it was, every other
\* video keeps the reply of its own parse, and when the plan is computed the
\* file whose parse failed has an episode, the season scanned from its name
\* (else 1) and a preview name.
C20_ParseFailureIsPerFile ==
    /\ (lastParse.ran /\ Len(lastParse.replies) = Len(files)) =>
          \A i \in Videos :
              files[i].parsed = IF lastParse.replies[i].present THEN lastParse.replies[i]
                                ELSE lastParse.before[i]
    /\ Planned =>
          \A i \in Named :
              ~files[i].parsed.present =>
                  /\ files[i].metadata.present
                  /\ Episode(i) \in 1..Len(files)
                  /\ files[i].metadata.season =
                        (IF SeasonScan(files[i].name) # NoNumber /\ SeasonScan(files[i].name) # 0
                         THEN SeasonScan(files[i].name) ELSE 1)
                  /\ files[i].new_name # <<>>

\* a planned set of two videos: the parse of the first failed, the second
\* carries the hint of its own parse, and the first has the season of its name
C20_Witness ==
    /\ Planned
    /\ lastParse.ran
    /\ \E i, j \in Videos :
          /\ i < j
          /\ ~lastParse.replies[i].present
          /\ ~files[i].parsed.present
          /\ files[j].parsed.present
          /\ files[j].parsed = lastParse.replies[j]
          /\ files[i].metadata.season = 3
          /\ files[i].new_name # <<>>

\* C12 as stated: every planned subtitle whose source name has at least 3
\* segments carries the episode number of its own suffix group and ends with
\* ".<original suffix>.<ext>", whatever the subtitle-suffix template and the
\* file-name template.
C12_OriginalSuffixKept ==
    Planned =>
        \A i \in Subtitles :
            Len(Segments(files[i].name)) >= 3 =>
                /\ Episode(i) = RankInGroup(i)
                /\ EndsWith(files[i].new_name,
                            <<".">> \o Segments(files[i].name)[Len(Segments(files[i].name)) - 1]
                            \o <<".", files[i].file_type>>)

\* the files that have metadata, and the metadata the anime folder is built from
WithMetadata == {i \in 1..Len(files) : files[i].metadata.present}

FolderInfo == files[CHOOSE i \in WithMetadata : \A j \in WithMetadata : i <= j].metadata

\* [animeFolder/][seasonFolder/]previewName for file i
LayoutPath(i) ==
    (IF createAnimeFolders THEN AnimeFolder(folderTemplate, FolderInfo) \o <<"/">> ELSE <<>>)
    \o (IF organizeBySeasons /\ files[i].metadata.season >= 1
        THEN SeasonFolder(seasonFolderTemplate, files[i].metadata.season) \o <<"/">>
        ELSE <<>>)
    \o files[i].new_name

\* C13 as stated: the destination of every planned file is
\* [animeFolder/][seasonFolder/]previewName, with the anime folder iff
\* createAnimeFolders, the season folder iff organizeBySeasons and the season
\* is known, and the file's own preview name as the last segment.
C13_DestinationLayout ==
    \A i \in Named :
        (files[i].metadata.present /\ files[i].new_name # <<>>) =>
            /\ files[i].path \in DOMAIN DestinationMap
            /\ DestinationMap[files[i].path] = LayoutPath(i)

\* the first segment of a destination path
FirstSegment(d) == IF Includes(d, <<"/">>) THEN SubSeq(d, 1, IndexOf(d, <<"/">>) - 1) ELSE d

\* C14 as stated: with createAnimeFolders and a candidate without year, the
\* anime-folder segment of every destination holds no {year} token and no
\* empty parentheses.
C14_NoYearLeftInFolder ==
    (createAnimeFolders /\ WithMetadata # {} /\ ~Truthy(FolderInfo.year)) =>
        \A p \in DOMAIN DestinationMap :
            /\ ~Includes(FirstSegment(DestinationMap[p]), <<"{year}">>)
            /\ ~Includes(FirstSegment(DestinationMap[p]), <<"(", ")">>)

\* C18: the materializer is invoked only in a run of processFiles that had a
\* non-empty working set, an output directory and a probe that answered true.
C18_MaterializerGatedOnProbe ==
    lastProcess.invoked =>
        /\ lastProcess.probed
        /\ lastProcess.canHardlink = "true"
        /\ files # <<>>
        /\ outputDir # <<>>

\* a run of processFiles that invoked the materializer with the paths of a
\* planned working set
C18_Witness ==
    /\ lastProcess.invoked
    /\ Len(lastProcess.paths) >= 2
    /\ \A i \in 1..Len(files) : files[i].new_name # <<>>
    /\ DOMAIN lastProcess.renameMap # {}

\* C15 as stated: once a name was edited by hand, that name is the preview
\* name of the file and the last segment of its destination, also after
\* later replans.
C15_EditStaysInForce ==
    lastEdit.made =>
        /\ files[lastEdit.index].new_name = lastEdit.name
        /\ EndsWith(DestinationMap[files[lastEdit.index].path], lastEdit.name)

\* the name the planner computes for file i from its metadata
FreshName(i) == Finish(i, RenderFirst(TemplateOf(i), NumericValues(i) @@ TextValues(i)))

C17_PathsAreUnique ==
    \A i, j \in 1..Len(files) : i # j => files[i].path # files[j].path

\* C19 as stated: when the materializer is invoked, the destination map has
\* an entry for every video and subtitle file whose path is handed to it.
C19_MapCoversHandedFiles ==
    lastProcess.invoked =>
        \A i \in Named :
            /\ \E k \in 1..Len(lastProcess.paths) : lastProcess.paths[k] = files[i].path
            /\ files[i].path \in DOMAIN lastProcess.renameMap

\* C21: a metadata search that returns zero candidates does not run the
\* planner and leaves the metadata and the preview name of every file as they
\* were before the search.
C21_EmptySearchChangesNothing ==
    [][(lastSearch'.ran /\ ~lastSearch'.threw /\ lastSearch'.found = 0)
          => /\ ~lastPlan'.ran
             /\ Len(files') = Len(files)
             /\ \A i \in 1..Len(files) :
                   /\ files'[i].metadata = files[i].metadata
                   /\ files'[i].new_name = files[i].new_name
                   /\ files'[i].path = files[i].path]_vars

\* a search without candidates over a working set that an earlier search had
\* planned: the annotations and names of that plan are still there
C21_Witness ==
    /\ lastSearch.ran
    /\ ~lastSearch.threw
    /\ lastSearch.found = 0
    /\ animeSearchResults = <<>>
    /\ ~lastPlan.ran
    /\ Len(files) >= 2
    /\ \A i \in 1..Len(files) : files[i].metadata.present /\ files[i].new_name # <<>>

\* C22 as stated: whenever the result of the materializer lists at least one
\* failed file, the user is shown a warning, also when the result is a
\* success, and never an error.
C22_FailuresAreWarned ==
    (lastResult.answered /\ ~lastResult.threw /\ lastResult.failed > 0)
        => lastResult.toast = "warning"

\* C28 as stated: at most one invocation of the materializer is in flight at
\* any time.
C28_OneMaterializerInFlight == pending.calls <= 1

\* C29 as stated: once no run of processFiles is in flight, no progress
\* interval is live and isProcessing is false; and once the reset timeouts
\* have fired as well, the progress is 0.
C29_RunsEndCleanly ==
    (pending.probes = 0 /\ pending.calls = 0) =>
        /\ pending.intervals = 0
        /\ ~isProcessing
        /\ (pending.resets = 0 => processingProgress = 0)

\* the name of file i resolved from the file-name template now in force
NameInForce(i) ==
    Finish(i, RenderFirst(IF files[i].is_subtitle THEN fileNameTemplate \o subtitleSuffix
                          ELSE fileNameTemplate,
                          NumericValues(i) @@ TextValues(i)))

\* C23 as stated: after a replan that returns, the replan of a file-name
\* template edit included, the preview name of every video and subtitle file
\* is the resolution of the template now in force, not of the template that
\* was in force before the edit.
C23_NamesFollowTheEditedTemplate ==
    Planned => \A i \in Named : files[i].new_name = NameInForce(i)

\* the season the hint of file i supplies, else the one scanned from its name
SuppliedSeason(i) ==
    IF files[i].parsed.present /\ files[i].parsed.season # NoNumber
    THEN files[i].parsed.season
    ELSE SeasonScan(files[i].name)

\* C24 as stated: the season assigned to a file is the number its hint or the
\* scan of its name supplies, 0 included, and that number is what {season}
\* becomes in the preview name and in the season folder of the destination.
C24_SeasonIsTheSuppliedNumber ==
    Planned =>
        \A i \in Named :
            SuppliedSeason(i) # NoNumber =>
                /\ files[i].metadata.season = SuppliedSeason(i)
                /\ files[i].new_name =
                      Finish(i, RenderFirst(TemplateOf(i),
                                            ("{season}" :> NumToString(SuppliedSeason(i)))
                                            @@ NumericValues(i) @@ TextValues(i)))
                /\ (organizeBySeasons /\ files[i].path \in DOMAIN DestinationMap) =>
                      Includes(DestinationMap[files[i].path],
                               SeasonFolder(seasonFolderTemplate, SuppliedSeason(i)) \o <<"/">>)

\* a step that is an editFileName: it leaves a manual edit that no replan
\* has followed, and it is no replan, search or template edit itself
EditStep ==
    /\ lastEdit'.made
    /\ ~lastEdit'.replanned
    /\ ~lastPlan'.ran
    /\ ~lastSearch'.ran
    /\ fileNameTemplate' = fileNameTemplate

\* C25: an editFileName changes the preview name of the edited file only;
\* every other field of that file, every other file, and the membership and
\* order of the working set are as before.
C25_EditTouchesOneName ==
    [][EditStep =>
          /\ Len(files') = Len(files)
          /\ lastEdit'.index \in 1..Len(files)
          /\ \A i \in 1..Len(files) :
                files'[i] = IF i = lastEdit'.index
                            THEN [files[i] EXCEPT !.new_name = lastEdit'.name]
                            ELSE files[i]]_vars

\* an edited name next to a planned file that kept its own name
C25_Witness ==
    /\ lastEdit.made
    /\ ~lastEdit.replanned
    /\ ~lastPlan.ran
    /\ files[lastEdit.index].new_name = lastEdit.name
    /\ \E j \in 1..Len(files) :
          /\ j # lastEdit.index
          /\ files[j].metadata.present
          /\ files[j].new_name # <<>>
          /\ files[j].new_name # lastEdit.name

\* the template has a placeholder for the episode
HasEpisodePlaceholder(t) ==
    \E k \in 1..Len(t) : t[k] \in {"{episode}", "{episode:02}", "{episode:03}"}

\* C26 as stated: in a plan whose file-name template has an episode
\* placeholder, no two files with different source paths have the same
\* destination path.
C26_DestinationsAreDistinct ==
    (Planned /\ HasEpisodePlaceholder(lastPlan.template)) =>
        \A i, j \in Named :
            (/\ files[i].path # files[j].path
             /\ files[i].path \in DOMAIN lastPlan.destinations
             /\ files[j].path \in DOMAIN lastPlan.destinations)
                => lastPlan.destinations[files[i].path] # lastPlan.destinations[files[j].path]

\* C27 as stated: when a run of parseFilenames has ended, every file added
\* to the working set during the run is in the set and every file removed
\* during the run is not.
C27_NoUpdateLostInFlight ==
    inFlightUpdates.completed =>
        /\ \A p \in inFlightUpdates.added : \E i \in 1..Len(files) : files[i].path = p
        /\ \A p \in inFlightUpdates.removed : \A i \in 1..Len(files) : files[i].path # p

\* C30 as stated: when the settings were saved, by saveCurrentSettings or by
\* an auto-save, and then loaded, the file-name template and the subtitle
\* suffix are the ones the page showed when they were saved.
C30_SaveLoadRoundTrip ==
    (lastSave.made /\ lastSave.loaded) =>
        /\ fileNameTemplate = lastSave.template
        /\ subtitleSuffix = lastSave.suffix

====
